---- MODULE Spec2Model ----
(***************************************************************************)
(* Order saga engine of the wayfinder backend: OrderService.CreateOrder    *)
(* over the Postgres saga store, payment client and driver client, each    *)
(* outbound side effect going through the retry / limiter / breaker        *)
(* wrapper.  Every SQL statement is one atomic step; concurrent            *)
(* CreateOrder invocations interleave between statements.                  *)
(***************************************************************************)
EXTENDS Integers, Sequences, FiniteSets, TLC

\* ------------------------------------------------------------------ bounds
NumCalls == 2
MaxAttempts == 2
MaxFaults == 2

Calls == 1 .. NumCalls
\* the requests an invocation may carry: one payload under key k1, the same
\* key with another user or another amount, another key, and the empty key
Requests == {
    [idempotency_key |-> "k1", user_id |-> "u1", amount |-> 10],
    [idempotency_key |-> "k1", user_id |-> "u2", amount |-> 10],
    [idempotency_key |-> "k1", user_id |-> "u1", amount |-> 20],
    [idempotency_key |-> "k2", user_id |-> "u1", amount |-> 10],
    [idempotency_key |-> "",   user_id |-> "u1", amount |-> 10] }
Drivers == {"d1"}

\* ------------------------------------------------------------------ errors
\* An error value is a sequence of strings; the nil error is the empty one.
Nil == << >>
ErrIdempotencyKeyRequired == <<"idempotency key required">>
ErrIdempotencyConflict == <<"idempotency key reused with different payload">>
ErrCircuitOpen == <<"circuit breaker open">>
ErrCanceled == <<"context canceled">>
ErrDeadlineExceeded == <<"context deadline exceeded">>
ErrAlreadyCharged == <<"order already charged">>
ErrNotCharged == <<"order not charged">>
ErrAlreadyRefunded == <<"order already refunded">>
ErrOrderIdRequired == <<"order id required">>
ErrIdsRequired == <<"order and driver ids are required">>
ErrDifferentDriver == <<"order already assigned to different driver">>
ErrAssignmentNotFound == <<"assignment not found after insert">>
ErrSagaNotFound == <<"saga not found after insert">>
\* an error reported by database/sql for a statement
ErrStore == <<"sql: statement failed">>

AlreadyProcessed(status) == <<"order already processed with status", status>>
RefundFailed(err, refundErr) ==
    <<"driver assignment failed">> \o err \o <<"refund failed">> \o refundErr

\* The composite error is built by fmt.Errorf with %w for err and %v for
\* refundErr: it wraps err, and holds of refundErr only the text.  Unwrap
\* gives the wrapped error, nil for an error that wraps none.
Unwrap(e) ==
    IF e # Nil /\ e[1] = "driver assignment failed"
       THEN SubSeq(e, 2, (CHOOSE i \in 1 .. Len(e) : e[i] = "refund failed") - 1)
       ELSE Nil

\* errors.Is: e is target, or wraps it
ErrorsIs(e, target) == e = target \/ (Unwrap(e) # Nil /\ Unwrap(e) = target)

\* ------------------------------------------------------------ saga package
SagaStatusStarted == "started"
SagaStatusSucceeded == "succeeded"
SagaStatusFailed == "failed"
SagaStatusRefunded == "refunded"

\* the zero saga.SagaRecord{}; the empty order id is 0
NoRecord == [order_id |-> 0, user_id |-> "", amount |-> 0, status |-> ""]

\* ------------------------------------------------------------------- state
VARIABLES
    order_sagas,        \* table order_sagas: set of rows
    order_saga_steps,   \* table order_saga_steps, per order_id in id order
    payments,           \* table payments: set of rows
    order_assignments,  \* table order_assignments: set of rows
    refund_effects,     \* per order_id: how often the refund UPDATE hit a row
    pc,                 \* per invocation: position in CreateOrder
    req,                \* per invocation: arguments and the selected driver
    affected,           \* per invocation: RowsAffected of Start's INSERT
    start,              \* per invocation: what Start returned
    attempt,            \* per invocation: attempt number of RetryPolicy.Do
    err,                \* per invocation: error of Charge / Assign
    refundErr,          \* per invocation: error of Refund
    calls,              \* per invocation: side effects invoked and outcomes
    statuses,           \* per invocation: UpdateStatus calls made
    result,             \* per invocation: (order id, error) returned
    updateErr,          \* per invocation: the error UpdateStatus returned
    ctxDone,            \* per invocation: its context has been cancelled
    faults,             \* injected statement / wrapper failures so far
    breaker,            \* the CircuitBreaker struct
    clock,              \* what time.Now returns
    exec,               \* per task: the frame of its CircuitBreaker.Execute
    opened,             \* when the breaker last became open, by the clock
    streak,             \* failed calls of the wrapped operation since a success
    policy,             \* the RetryPolicy struct
    ctxErr,             \* ctx.Err() of the context given to RetryPolicy.Do
    loop,               \* the frame of RetryPolicy.Do
    fnCalls,            \* what each invocation of fn by Do returned
    sleeps,             \* the delays Do passed to sleep
    limiter,            \* the RateLimiter (grpcRateLimiter) struct
    wallClock,          \* what the limiter's time.Now returns
    wait,               \* per waiter: the frame of its Wait
    admitted,           \* per instant: the Wait calls admitted at it
    broadcaster,        \* whether the FanoutPublisher has a broadcaster
    handler,            \* the frame of Server.UpdateLocation
    recvd,              \* the messages stream.Recv has returned
    ingested,           \* the locations passed to Ingest
    acked,              \* how often SendAndClose was called
    pub,                \* the frame of FanoutPublisher.Publish
    hub,                \* the goroutine of Hub.Run and the hub's connections
    broadcastCh,        \* the buffer of the channel Hub.Broadcast
    hubIn,              \* the messages Hub.Run has received
    assign,             \* per caller: the frame of its PostgresDriverClient.Assign
    metrics,            \* the Metrics registry: methods, a map to methodStats
    span,               \* per RPC: the CallSpan it holds
    uptime,             \* what time.Now returns to the registry, in ms
    snap,               \* the Snapshot last returned
    started,            \* per method: Start calls so far
    ended,              \* per method: End calls so far
    run,                \* the position of run in the server's main package
    sigterm,            \* the context of run is done: a signal has arrived
    health,             \* per service: the status the health server reports
    accepting,          \* the gRPC server accepts connections and RPCs
    inflight,           \* the RPCs the gRPC server is handling
    obsSrv,             \* the observability HTTP server
    scraping,           \* the observability server is answering a request
    events,             \* what run has done since the signal, in order
    attemptFn           \* per client call: the frame of the attempt closure of do

tables == <<order_sagas, order_saga_steps, payments, order_assignments, refund_effects>>
locals == <<pc, req, affected, start, attempt, err, refundErr, calls, statuses, result>>
sagaVars == <<order_sagas, order_saga_steps, payments, order_assignments, refund_effects,
              pc, req, affected, start, attempt, err, refundErr, calls, statuses,
              result, updateErr, ctxDone, faults>>
breakerVars == <<breaker, clock, exec, opened, streak>>
retryVars == <<policy, ctxErr, loop, fnCalls, sleeps>>
limiterVars == <<limiter, wallClock, wait, admitted>>
reliabilityVars == <<breakerVars, retryVars, limiterVars>>
ingestVars == <<broadcaster, handler, recvd, ingested, acked, pub, hub,
                broadcastCh, hubIn>>
driverVars == <<assign>>
metricsVars == <<metrics, span, uptime, snap, started, ended>>
shutdownVars == <<run, sigterm, health, accepting, inflight, obsSrv, scraping, events>>
wrapVars == <<attemptFn>>
laterVars == <<driverVars, metricsVars, shutdownVars, wrapVars>>
vars == <<sagaVars, breakerVars, retryVars, limiterVars, ingestVars, laterVars>>

\* the callers of Assign, the arguments they pass (order id 0 and driver ""
\* are the empty strings), and a caller outside Assign
NumAssigners == 2
Assigners == 1 .. NumAssigners
AssignArgs == [order_id : {0, 1}, driver_id : {"", "d1", "d2"}]
NoAssign == [pc |-> "idle", order_id |-> 0, driver_id |-> "", affected |-> 0, ret |-> Nil]

\* the RPCs that run at once, the Start calls of a run, the span of time.Now,
\* the tracked methods, the zero methodStats, CallSpan and Snapshot
NumRpcs == 2
MaxStarts == 3
MaxUptime == 2
Rpcs == 1 .. NumRpcs
MethodNames == {"CreateOrder", "UpdateLocation"}
NoStats == [count |-> 0, errors |-> 0, inFlight |-> 0, totalLatency |-> 0,
            maxLatency |-> 0, lastLatency |-> 0]
NoSpan == [pc |-> "idle", method |-> "", start |-> 0]
NoSnapshot == [TotalRequests |-> 0, TotalErrors |-> 0, InFlight |-> 0,
               Methods |-> << >>]

\* the RPCs the server may be handling at once, and the services whose health
\* it reports ("" is the server as a whole)
NumStreams == 3
Streams == 1 .. NumStreams
Services == {"DriverService", "OrderService", ""}

NoReq == [idempotency_key |-> "", user_id |-> "", amount |-> 0, driver_id |-> ""]
NoResult == [order_id |-> 0, err |-> Nil]
NoStart == [record |-> NoRecord, created |-> FALSE, err |-> Nil]

\* ------------------------------------------------------------ time.Duration
\* A time.Duration is an int64 count of nanoseconds.  The model keeps zero,
\* the powers of two and the least int64: [sign, exp] stands for sign * 2^exp.
DurationBits == 64

Zero == [sign |-> 0, exp |-> 0]
Pow2(e) == [sign |-> 1, exp |-> e]
MinInt64 == [sign |-> -1, exp |-> DurationBits - 1]

\* d > 0 and a > b
Positive(d) == d.sign = 1
Greater(a, b) ==
    IF a.sign # b.sign THEN a.sign > b.sign
    ELSE IF a.sign = 1 THEN a.exp > b.exp
    ELSE IF a.sign = -1 THEN a.exp < b.exp
    ELSE FALSE

\* d << n on an int64, for d > 0: the bits shifted out are lost
ShiftLeft(d, n) ==
    IF d.exp + n < DurationBits - 1 THEN Pow2(d.exp + n)
    ELSE IF d.exp + n = DurationBits - 1 THEN MinInt64
    ELSE Zero

\* -------------------------------------------------------------- RetryPolicy
AttemptsLimit == 4
BaseDelays == {Zero, Pow2(0), Pow2(DurationBits - 3), Pow2(DurationBits - 2)}
MaxDelays == {Zero, Pow2(1), Pow2(DurationBits - 2)}

\* the policies Do is run with; Jitter and ShouldRetry are the default (the
\* field is nil) or the function the tests install
Policies == [MaxAttempts : 0 .. AttemptsLimit, BaseDelay : BaseDelays,
             MaxDelay : MaxDelays, Jitter : {"default", "identity"},
             ShouldRetry : {"default", "always"}]

\* what fn may return to Do
FnErrors == {Nil, ErrStore, ErrCircuitOpen, ErrCanceled, ErrDeadlineExceeded}

\* the frame of Do when the loop is entered
DoFrame == [pc |-> "for", attempt |-> 1, delay |-> Zero, slept |-> Nil, ret |-> Nil]

\* ----------------------------------------------------------- CircuitBreaker
circuitClosed == "closed"
circuitOpen == "open"
circuitHalfOpen == "half-open"

NumTasks == 2
MaxClock == 3
MaxFailuresLimit == 2
ResetTimeoutLimit == 2

\* the clock counts seconds
DefaultResetTimeout == 2

Tasks == 1 .. NumTasks
BreakerConfigs == [MaxFailures : 0 .. MaxFailuresLimit,
                   ResetTimeout : 0 .. ResetTimeoutLimit]

NewCircuitBreaker(cfg) ==
    [maxFails |-> IF cfg.MaxFailures < 1 THEN 1 ELSE cfg.MaxFailures,
     resetAfter |-> IF cfg.ResetTimeout <= 0 THEN DefaultResetTimeout
                    ELSE cfg.ResetTimeout,
     state |-> circuitClosed, failures |-> 0, openedAt |-> 0,
     halfOpenFlight |-> FALSE]

\* the frame of Execute before it is called
NoExec == [pc |-> "idle", now |-> 0, open |-> FALSE, trial |-> FALSE, ret |-> Nil]

\* -------------------------------------------------------------- RateLimiter
NumWaiters == 2
MaxWall == 4
MaxRate == 2
MaxBurst == 2

Waiters == 1 .. NumWaiters
Instants == 0 .. MaxWall

\* the goroutines inside do of one reliability-wrapped client, each with its
\* frame of Wait and of Execute, and an attempt not yet made
Clients == Waiters \cap Tasks
NoAttempt == [pc |-> "idle", n |-> 0, ret |-> Nil]

\* the limiter of the outbound clients (RateLimiter) and the limiter of the
\* inbound RPCs (grpcRateLimiter); the configuration loaders refuse negative
\* values, the clock counts units of the interval
LimiterConfigs == [kind : {"egress", "ingress"}, rate : 0 .. MaxRate,
                   burst : 0 .. MaxBurst]

NewRateLimiter(cfg, now) ==
    [kind |-> cfg.kind, rate |-> cfg.rate, burst |-> cfg.burst,
     tokens |-> cfg.burst, last |-> now]

\* the frame of Wait before it is called
NoWait == [pc |-> "idle", ctx |-> Nil, wake |-> 0, ret |-> Nil]

\* ---------------------------------------------------------- location ingest
NumStores == 2
MaxMsgs == 2

\* make(chan []byte): the channel Hub.Broadcast has no buffer
BroadcastCap == 0

\* a float64: a number, or NaN, which every comparison answers with false
NaN == [nan |-> TRUE, v |-> 0]
F(x) == [nan |-> FALSE, v |-> x]
Lt(a, b) == ~a.nan /\ ~b.nan /\ a.v < b.v
Gt(a, b) == ~a.nan /\ ~b.nan /\ a.v > b.v
Ge(a, b) == ~a.nan /\ ~b.nan /\ a.v >= b.v

\* the messages a client can put on the stream: the timestamp is absent,
\* set and out of range, or set and valid
Messages == [driver_id : {"", "courier-1"},
             latitude : {NaN, F(-91), F(45)},
             longitude : {F(-120), F(181)},
             timestamp : {"nil", "invalid", "valid"}]

ErrInvalidDriverID == <<"driver id is required">>
ErrInvalidLatitude == <<"latitude must be between -90 and 90">>
ErrInvalidLongitude == <<"longitude must be between -180 and 180">>
ErrInvalidCoordinate == <<"invalid coordinate">>
ErrRecv == <<"recv boom">>

NoLocation == [DriverID |-> "", Lat |-> F(0), Long |-> F(0), Timestamp |-> "zero"]

\* NewLocation(driverID, lat, long, timestamp): the location and the error
NewLocation(driverID, lat, long, timestamp) ==
    IF driverID = "" THEN [loc |-> NoLocation, err |-> ErrInvalidDriverID]
    ELSE IF Lt(lat, F(-90)) \/ Gt(lat, F(90))
        THEN [loc |-> NoLocation, err |-> ErrInvalidLatitude]
    ELSE IF Lt(long, F(-180)) \/ Gt(long, F(180))
        THEN [loc |-> NoLocation, err |-> ErrInvalidLongitude]
    ELSE [loc |-> [DriverID |-> driverID, Lat |-> lat, Long |-> long,
                   Timestamp |-> timestamp],
          err |-> Nil]

\* sharding.GetShardID(lat, long): the shard and the error
GetShardID(lat, long) ==
    IF lat.nan \/ long.nan THEN [shard |-> "", err |-> ErrInvalidCoordinate]
    ELSE IF Ge(lat, F(0)) /\ Ge(long, F(0)) THEN [shard |-> "shard-1", err |-> Nil]
    ELSE IF Lt(lat, F(0)) /\ Lt(long, F(0)) THEN [shard |-> "shard-2", err |-> Nil]
    ELSE IF Ge(lat, F(0)) /\ Lt(long, F(0)) THEN [shard |-> "shard-3", err |-> Nil]
    ELSE IF Lt(lat, F(0)) /\ Ge(long, F(0)) THEN [shard |-> "shard-4", err |-> Nil]
    ELSE [shard |-> "", err |-> ErrInvalidCoordinate]

\* the stores of the MultiLocationStore, in configured order, and the error
\* of each when its Update fails
Stores == 1 .. NumStores
StoreNames == <<"history", "latest", "third", "fourth">>
StoreErr(i) == <<"update failed", StoreNames[i]>>

RECURSIVE Join(_)
\* errors.Join(errs...): nil when there is no error, else one error that
\* wraps them all
Join(errs) ==
    IF errs = << >> THEN Nil
    ELSE IF Len(errs) = 1 THEN <<"join">> \o errs[1]
    ELSE Join(SubSeq(errs, 1, Len(errs) - 1)) \o <<"\n">> \o errs[Len(errs)]

RECURSIVE Split(_)
\* the errors a joined error wraps
Split(e) ==
    IF e = << >> THEN << >>
    ELSE IF \E i \in 1 .. Len(e) : e[i] = "\n"
        THEN LET i == CHOOSE j \in 1 .. Len(e) :
                         e[j] = "\n" /\ \A k \in 1 .. (j - 1) : e[k] # "\n"
             IN  <<SubSeq(e, 1, i - 1)>> \o Split(SubSeq(e, i + 1, Len(e)))
    ELSE <<e>>

\* errors.Is(e, target) for an error that may be a joined one
IsJoined(e, target) ==
    \/ e = target
    \/ /\ e # Nil /\ e[1] = "join"
       /\ \E i \in 1 .. Len(Split(Tail(e))) : Split(Tail(e))[i] = target

Conns == {"ws-1"}

NoMessage == [type |-> "", driver_id |-> "", lat |-> F(0), long |-> F(0),
              shard |-> "", timestamp |-> "zero"]
NoHandler == [pc |-> "recv", msg |-> 0, loc |-> NoLocation, code |-> "", err |-> Nil]
NoPublish == [pc |-> "idle", loc |-> NoLocation, i |-> 1, called |-> << >>,
              errs |-> << >>, inner |-> Nil, data |-> NoMessage, log |-> << >>,
              ret |-> Nil]

\* ------------------------------------------------------------ initial state
\* a new breaker, of any configuration, that no task has called yet
BreakerStart ==
    /\ \E cfg \in BreakerConfigs : breaker = NewCircuitBreaker(cfg)
    /\ clock = 0
    /\ exec = [t \in Tasks |-> NoExec]
    /\ opened = 0
    /\ streak = 0

\* Do entered with any policy and a context that is not done
RetryStart ==
    /\ policy \in Policies
    /\ ctxErr = Nil
    /\ loop = DoFrame
    /\ fnCalls = << >>
    /\ sleeps = << >>

\* a new limiter, of any configuration, that no caller has waited on yet
LimiterStart ==
    /\ \E cfg \in LimiterConfigs : limiter = NewRateLimiter(cfg, 0)
    /\ wallClock = 0
    /\ wait = [t \in Waiters |-> NoWait]
    /\ admitted = [i \in Instants |-> 0]

\* the breaker, the retry policy and the limiter, taken alone, of the order
\* service's clients: CreateOrder reaches them through Gate and Do
BreakerAtRest ==
    /\ breaker = NewCircuitBreaker([MaxFailures |-> 1, ResetTimeout |-> 1])
    /\ clock = 0
    /\ exec = [t \in Tasks |-> NoExec]
    /\ opened = 0
    /\ streak = 0

RetryAtRest ==
    /\ policy = [MaxAttempts |-> MaxAttempts, BaseDelay |-> Zero, MaxDelay |-> Zero,
                 Jitter |-> "default", ShouldRetry |-> "default"]
    /\ ctxErr = Nil
    /\ loop = DoFrame
    /\ fnCalls = << >>
    /\ sleeps = << >>

LimiterAtRest ==
    /\ limiter = NewRateLimiter([kind |-> "egress", rate |-> 1, burst |-> 1], 0)
    /\ wallClock = 0
    /\ wait = [t \in Waiters |-> NoWait]
    /\ admitted = [i \in Instants |-> 0]

\* a stream just opened, the hub waiting in its select, with or without a
\* broadcaster behind the publisher
IngestStart ==
    /\ broadcaster \in BOOLEAN
    /\ handler = NoHandler
    /\ recvd = << >>
    /\ ingested = << >>
    /\ acked = 0
    /\ pub = NoPublish
    /\ hub = [pc |-> "select", msg |-> NoMessage, conns |-> {}]
    /\ broadcastCh = << >>
    /\ hubIn = << >>

IngestAtRest ==
    /\ broadcaster = TRUE
    /\ handler = NoHandler
    /\ recvd = << >>
    /\ ingested = << >>
    /\ acked = 0
    /\ pub = NoPublish
    /\ hub = [pc |-> "select", msg |-> NoMessage, conns |-> {}]
    /\ broadcastCh = << >>
    /\ hubIn = << >>

\* no caller is inside PostgresDriverClient.Assign
DriverAtRest == assign = [t \in Assigners |-> NoAssign]

\* NewMetrics: no method seen, no RPC in flight, no snapshot taken
MetricsAtRest ==
    /\ metrics = [methods |-> << >>]
    /\ span = [t \in Rpcs |-> NoSpan]
    /\ uptime = 0
    /\ snap = NoSnapshot
    /\ started = [m \in MethodNames |-> 0]
    /\ ended = [m \in MethodNames |-> 0]

\* run waits in its select: every service reported as serving, both servers up
ShutdownAtRest ==
    /\ run = "select"
    /\ sigterm = FALSE
    /\ health = [s \in Services |-> "SERVING"]
    /\ accepting = TRUE
    /\ inflight = {}
    /\ obsSrv = "listening"
    /\ scraping = FALSE
    /\ events = << >>

\* no reliability-wrapped call is in progress
WrapAtRest == attemptFn = [t \in Clients |-> NoAttempt]

LaterAtRest == DriverAtRest /\ MetricsAtRest /\ ShutdownAtRest /\ WrapAtRest

SagaInit ==
    /\ order_sagas = {}
    /\ order_saga_steps = [o \in Calls |-> << >>]
    /\ payments = {}
    /\ order_assignments = {}
    /\ refund_effects = [o \in Calls |-> 0]
    /\ pc = [c \in Calls |-> "idle"]
    /\ req = [c \in Calls |-> NoReq]
    /\ affected = [c \in Calls |-> 0]
    /\ start = [c \in Calls |-> NoStart]
    /\ attempt = [c \in Calls |-> 1]
    /\ err = [c \in Calls |-> Nil]
    /\ refundErr = [c \in Calls |-> Nil]
    /\ calls = [c \in Calls |-> << >>]
    /\ statuses = [c \in Calls |-> << >>]
    /\ result = [c \in Calls |-> NoResult]
    /\ updateErr = [c \in Calls |-> Nil]
    /\ ctxDone = [c \in Calls |-> FALSE]
    /\ faults = 0

Init == SagaInit /\ BreakerAtRest /\ RetryAtRest /\ LimiterAtRest /\ IngestAtRest
        /\ LaterAtRest
BreakerInit ==
    SagaInit /\ BreakerStart /\ RetryAtRest /\ LimiterAtRest /\ IngestAtRest
        /\ LaterAtRest
RetryInit ==
    SagaInit /\ BreakerAtRest /\ RetryStart /\ LimiterAtRest /\ IngestAtRest
        /\ LaterAtRest
LimiterInit ==
    SagaInit /\ BreakerAtRest /\ RetryAtRest /\ LimiterStart /\ IngestAtRest
        /\ LaterAtRest
IngestInit ==
    SagaInit /\ BreakerAtRest /\ RetryAtRest /\ LimiterAtRest /\ IngestStart
        /\ LaterAtRest

\* ---------------------------------------------------------- fault injection
\* Outcome of one SQL statement: it ran and replied ("ok"); it failed before
\* taking effect ("exec_err"); it took effect but the reply, or RowsAffected,
\* was an error ("late_err"); the row scan of a SELECT failed ("scan_err").
\* A statement run with a cancelled context fails before taking effect
\* ("ctx").  The failures the environment chooses are counted.
Cost(f) == IF f \in {"ok", "ctx", "admit", "canceled", "slept"} THEN 0 ELSE 1

\* the outcomes of a statement that invocation c runs with its context
WithContext(c, outcomes) == IF ctxDone[c] THEN {"ctx"} ELSE outcomes

StmtErr(f) == IF f = "ctx" THEN ErrCanceled ELSE ErrStore
Inject(n) ==
    /\ faults + n <= MaxFaults
    /\ faults' = faults + n

\* idGen: a fresh order id per invocation; invocations are numbered in the
\* order in which they begin and the c-th one draws order id c
idGen(c) == c

Return(c, order_id, e) ==
    /\ result' = [result EXCEPT ![c] = [order_id |-> order_id, err |-> e]]
    /\ pc' = [pc EXCEPT ![c] = "done"]

\* -------------------------------------------------------------- CreateOrder
\* mutant: the idempotency key is not checked
BeginWithoutKeyCheck(c) ==
    /\ pc[c] = "idle"
    /\ \A b \in Calls : b < c => pc[b] # "idle"
    /\ \E r \in Requests, d \in Drivers :
          /\ req' = [req EXCEPT ![c] = [idempotency_key |-> r.idempotency_key,
                                        user_id |-> r.user_id,
                                        amount |-> r.amount, driver_id |-> d]]
          /\ pc' = [pc EXCEPT ![c] = "Start.insert"]
          /\ UNCHANGED result
    /\ UNCHANGED <<tables, affected, start, attempt, err, refundErr, calls,
                   statuses, ctxDone, faults>>
    /\ UNCHANGED <<updateErr, reliabilityVars, ingestVars, laterVars>>

Begin(c) ==
    /\ pc[c] = "idle"
    /\ \A b \in Calls : b < c => pc[b] # "idle"
    /\ \E r \in Requests, d \in Drivers :
          /\ req' = [req EXCEPT ![c] = [idempotency_key |-> r.idempotency_key,
                                        user_id |-> r.user_id,
                                        amount |-> r.amount, driver_id |-> d]]
          /\ IF r.idempotency_key = ""
                THEN Return(c, 0, ErrIdempotencyKeyRequired)
                ELSE /\ pc' = [pc EXCEPT ![c] = "Start.insert"]
                     /\ UNCHANGED result
    /\ UNCHANGED <<tables, affected, start, attempt, err, refundErr, calls,
                   statuses, ctxDone, faults>>
    /\ UNCHANGED <<updateErr, reliabilityVars, ingestVars, laterVars>>

\* ---------------------------------------------------------- SagaStore.Start
KeyRows(rows, k) == {r \in rows : r.idempotency_key = k}

\* mutant: no unique constraint on idempotency_key
InsertSagaNoUnique(rows, row) == rows \cup {row}

InsertSaga(rows, row) ==
    IF KeyRows(rows, row.idempotency_key) # {} THEN rows ELSE rows \cup {row}

StartReturns(c, rec, created, e) ==
    /\ start' = [start EXCEPT ![c] = [record |-> rec, created |-> created, err |-> e]]
    /\ pc' = [pc EXCEPT ![c] = "started"]

StartInsert(c) ==
    /\ pc[c] = "Start.insert"
    /\ \E f \in WithContext(c, {"ok", "exec_err", "late_err"}) :
          LET row == [order_id |-> idGen(c),
                      idempotency_key |-> req[c].idempotency_key,
                      user_id |-> req[c].user_id,
                      amount |-> req[c].amount,
                      status |-> SagaStatusStarted]
              after == InsertSaga(order_sagas, row)
          IN  /\ Inject(Cost(f))
              /\ order_sagas' = IF f \in {"exec_err", "ctx"} THEN order_sagas ELSE after
              /\ IF f = "ok"
                    THEN /\ affected' = [affected EXCEPT ![c] =
                                            Cardinality(after) - Cardinality(order_sagas)]
                         /\ pc' = [pc EXCEPT ![c] = "Start.select"]
                         /\ UNCHANGED start
                    ELSE /\ StartReturns(c, NoRecord, FALSE, StmtErr(f))
                         /\ UNCHANGED affected
    /\ UNCHANGED <<order_saga_steps, payments, order_assignments, refund_effects,
                   req, attempt, err, refundErr, calls, statuses, result, ctxDone>>
    /\ UNCHANGED <<updateErr, reliabilityVars, ingestVars, laterVars>>

RecordOf(row) == [order_id |-> row.order_id, user_id |-> row.user_id,
                  amount |-> row.amount, status |-> row.status]

\* mutant: the row read is returned without comparing user_id and amount
StartSelectNoCompare(c) ==
    /\ pc[c] = "Start.select"
    /\ \E f \in WithContext(c, {"ok", "scan_err"}) :
          LET found == KeyRows(order_sagas, req[c].idempotency_key)
          IN  /\ Inject(Cost(f))
              /\ IF f # "ok"
                    THEN StartReturns(c, NoRecord, FALSE, StmtErr(f))
                    ELSE IF found = {}
                    THEN StartReturns(c, NoRecord, FALSE, ErrSagaNotFound)
                    ELSE StartReturns(c, RecordOf(CHOOSE r \in found : TRUE),
                                      affected[c] = 1, Nil)
    /\ UNCHANGED <<tables, req, affected, attempt, err, refundErr, calls,
                   statuses, result, ctxDone>>
    /\ UNCHANGED <<updateErr, reliabilityVars, ingestVars, laterVars>>

StartSelect(c) ==
    /\ pc[c] = "Start.select"
    /\ \E f \in WithContext(c, {"ok", "scan_err"}) :
          LET found == KeyRows(order_sagas, req[c].idempotency_key)
          IN  /\ Inject(Cost(f))
              /\ IF f # "ok"
                    THEN StartReturns(c, NoRecord, FALSE, StmtErr(f))
                    ELSE IF found = {}
                    THEN StartReturns(c, NoRecord, FALSE, ErrSagaNotFound)
                    ELSE LET record == RecordOf(CHOOSE r \in found : TRUE)
                         IN  IF record.user_id # req[c].user_id
                                  \/ record.amount # req[c].amount
                                THEN StartReturns(c, NoRecord, FALSE, ErrIdempotencyConflict)
                                ELSE StartReturns(c, record, affected[c] = 1, Nil)
    /\ UNCHANGED <<tables, req, affected, attempt, err, refundErr, calls,
                   statuses, result, ctxDone>>
    /\ UNCHANGED <<updateErr, reliabilityVars, ingestVars, laterVars>>

\* mutant: a replay of a completed order runs the saga again
AfterStartRerunsSucceeded(c) ==
    /\ pc[c] = "started"
    /\ IF start[c].err # Nil
          THEN Return(c, 0, start[c].err)
          ELSE IF ~start[c].created /\ start[c].record.status # SagaStatusSucceeded
          THEN Return(c, start[c].record.order_id,
                      AlreadyProcessed(start[c].record.status))
          ELSE /\ pc' = [pc EXCEPT ![c] = "L84"]
               /\ UNCHANGED result
    /\ UNCHANGED <<tables, req, affected, start, attempt, err, refundErr, calls,
                   statuses, ctxDone, faults>>
    /\ UNCHANGED <<updateErr, reliabilityVars, ingestVars, laterVars>>

\* mutant: a replay of a failed order is retried instead of rejected
AfterStartRetriesFailed(c) ==
    /\ pc[c] = "started"
    /\ IF start[c].err # Nil
          THEN Return(c, 0, start[c].err)
          ELSE IF ~start[c].created /\ start[c].record.status = SagaStatusSucceeded
          THEN Return(c, start[c].record.order_id, Nil)
          ELSE IF ~start[c].created /\ start[c].record.status # SagaStatusFailed
          THEN Return(c, start[c].record.order_id,
                      AlreadyProcessed(start[c].record.status))
          ELSE /\ pc' = [pc EXCEPT ![c] = "L84"]
               /\ UNCHANGED result
    /\ UNCHANGED <<tables, req, affected, start, attempt, err, refundErr, calls,
                   statuses, ctxDone, faults>>
    /\ UNCHANGED <<updateErr, reliabilityVars, ingestVars, laterVars>>

\* CreateOrder after Start returned
AfterStart(c) ==
    /\ pc[c] = "started"
    /\ IF start[c].err # Nil
          THEN Return(c, 0, start[c].err)
          ELSE IF ~start[c].created
          THEN IF start[c].record.status = SagaStatusSucceeded
                  THEN Return(c, start[c].record.order_id, Nil)
                  ELSE Return(c, start[c].record.order_id,
                              AlreadyProcessed(start[c].record.status))
          ELSE /\ pc' = [pc EXCEPT ![c] = "L84"]
               /\ UNCHANGED result
    /\ UNCHANGED <<tables, req, affected, start, attempt, err, refundErr, calls,
                   statuses, ctxDone, faults>>
    /\ UNCHANGED <<updateErr, reliabilityVars, ingestVars, laterVars>>

\* -------------------------------------------------------- SagaStore.AddStep
\* the AddStep call at each line of CreateOrder: step, status, next line
StepAt(l) ==
    CASE l = "L84"  -> [step |-> "charge", status |-> "started",   next |-> "L85"]
      [] l = "L86"  -> [step |-> "charge", status |-> "failed",    next |-> "L87"]
      [] l = "L90"  -> [step |-> "charge", status |-> "succeeded", next |-> "L92"]
      [] l = "L92"  -> [step |-> "assign", status |-> "started",   next |-> "L93"]
      [] l = "L94"  -> [step |-> "assign", status |-> "failed",    next |-> "L96"]
      [] l = "L96"  -> [step |-> "refund", status |-> "started",   next |-> "L97"]
      [] l = "L98"  -> [step |-> "refund", status |-> "failed",    next |-> "L99"]
      [] l = "L102" -> [step |-> "refund", status |-> "succeeded", next |-> "L103"]
      [] l = "L107" -> [step |-> "assign", status |-> "succeeded", next |-> "L108"]
StepLines == {"L84", "L86", "L90", "L92", "L94", "L96", "L98", "L102", "L107"}

\* mutant: the outcome entries carry no detail
DetailAtNone(c, l) == Nil

\* detail argument: err.Error() where the code passes one, else ""
DetailAt(c, l) ==
    CASE l \in {"L86", "L94"} -> err[c]
      [] l = "L98" -> refundErr[c]
      [] OTHER -> Nil

\* mutant: CreateOrder returns the error of a failed AddStep
AddStepFailureReturns(c) ==
    /\ pc[c] \in StepLines
    /\ \E f \in WithContext(c, {"ok", "exec_err", "late_err"}) :
          LET s == StepAt(pc[c])
              row == [order_id |-> idGen(c), step |-> s.step, status |-> s.status,
                      detail |-> DetailAt(c, pc[c])]
          IN  /\ Inject(Cost(f))
              /\ order_saga_steps' =
                    IF f \in {"ok", "late_err"}
                       THEN [order_saga_steps EXCEPT ![idGen(c)] = Append(@, row)]
                       ELSE order_saga_steps
              /\ IF f = "ok"
                    THEN pc' = [pc EXCEPT ![c] = s.next] /\ UNCHANGED result
                    ELSE Return(c, 0, StmtErr(f))
    /\ UNCHANGED <<order_sagas, payments, order_assignments, refund_effects, req,
                   affected, start, attempt, err, refundErr, calls, statuses,
                   ctxDone>>
    /\ UNCHANGED <<updateErr, reliabilityVars, ingestVars, laterVars>>

\* the INSERT into order_saga_steps; its error is discarded by CreateOrder
AddStep(c) ==
    /\ pc[c] \in StepLines
    /\ \E f \in WithContext(c, {"ok", "exec_err", "late_err"}) :
          LET s == StepAt(pc[c])
              row == [order_id |-> idGen(c), step |-> s.step, status |-> s.status,
                      detail |-> DetailAt(c, pc[c])]
          IN  /\ Inject(Cost(f))
              /\ order_saga_steps' =
                    IF f \in {"ok", "late_err"}
                       THEN [order_saga_steps EXCEPT ![idGen(c)] = Append(@, row)]
                       ELSE order_saga_steps
              /\ pc' = [pc EXCEPT ![c] = s.next]
    /\ UNCHANGED <<order_sagas, payments, order_assignments, refund_effects, req,
                   affected, start, attempt, err, refundErr, calls, statuses, result,
                   ctxDone>>
    /\ UNCHANGED <<updateErr, reliabilityVars, ingestVars, laterVars>>

\* --------------------------------------------------- SagaStore.UpdateStatus
\* the UpdateStatus call at each line of CreateOrder, and the return after it
\* mutant: a failed refund is recorded as refunded
UpdateAtRefundedOnFailure(c, l) ==
    CASE l = "L87"  -> [status |-> SagaStatusFailed, order_id |-> 0, err |-> err[c]]
      [] l = "L99"  -> [status |-> SagaStatusRefunded, order_id |-> 0,
                        err |-> RefundFailed(err[c], refundErr[c])]
      [] l = "L103" -> [status |-> SagaStatusRefunded, order_id |-> 0, err |-> err[c]]
      [] l = "L108" -> [status |-> SagaStatusSucceeded, order_id |-> idGen(c), err |-> Nil]

UpdateAt(c, l) ==
    CASE l = "L87"  -> [status |-> SagaStatusFailed, order_id |-> 0, err |-> err[c]]
      [] l = "L99"  -> [status |-> SagaStatusFailed, order_id |-> 0,
                        err |-> RefundFailed(err[c], refundErr[c])]
      [] l = "L103" -> [status |-> SagaStatusRefunded, order_id |-> 0, err |-> err[c]]
      [] l = "L108" -> [status |-> SagaStatusSucceeded, order_id |-> idGen(c), err |-> Nil]
UpdateLines == {"L87", "L99", "L103", "L108"}

\* mutant: the UPDATE has no WHERE clause
SetStatusEveryRow(rows, order_id, status) ==
    {[r EXCEPT !.status = status] : r \in rows}

SetStatus(rows, order_id, status) ==
    {IF r.order_id = order_id THEN [r EXCEPT !.status = status] ELSE r : r \in rows}

UpdateStatus(c) ==
    /\ pc[c] \in UpdateLines
    /\ \E f \in WithContext(c, {"ok", "exec_err", "late_err"}) :
          LET u == UpdateAt(c, pc[c])
          IN  /\ Inject(Cost(f))
              /\ order_sagas' = IF f \in {"ok", "late_err"}
                                   THEN SetStatus(order_sagas, idGen(c), u.status)
                                   ELSE order_sagas
              /\ statuses' = [statuses EXCEPT ![c] = Append(@, u.status)]
              /\ updateErr' = [updateErr EXCEPT ![c] =
                                  IF f = "ok" THEN Nil ELSE StmtErr(f)]
              /\ Return(c, u.order_id, u.err)
    /\ UNCHANGED <<order_saga_steps, payments, order_assignments, refund_effects, req,
                   affected, start, attempt, err, refundErr, calls, ctxDone>>
    /\ UNCHANGED <<reliabilityVars, ingestVars, laterVars>>

\* ---------------------------------------------------- PostgresPaymentClient
OrderRows(rows, order_id) == {r \in rows : r.order_id = order_id}

\* Charge: INSERT ... ON CONFLICT (order_id) DO NOTHING, then RowsAffected
Charge(rows, order_id, amount, f) ==
    LET row == [order_id |-> order_id, amount |-> amount,
                refunded_at |-> 0, refund_amount |-> 0]
        after == IF OrderRows(rows, order_id) # {} THEN rows ELSE rows \cup {row}
        n == Cardinality(after) - Cardinality(rows)
    IN  IF order_id = 0 THEN [rows |-> rows, err |-> ErrOrderIdRequired]
        ELSE IF f = "exec_err" THEN [rows |-> rows, err |-> ErrStore]
        ELSE IF f = "late_err" THEN [rows |-> after, err |-> ErrStore]
        ELSE IF n = 0 THEN [rows |-> after, err |-> ErrAlreadyCharged]
        ELSE [rows |-> after, err |-> Nil]

\* Refund: UPDATE ... WHERE order_id = $1 AND refunded_at IS NULL, then a
\* SELECT when no row was updated.  refunded_at 0 is NULL; NOW() is given by
\* the caller as a stamp.
\* mutant: the UPDATE does not require refunded_at IS NULL
RefundTargetsAnyRow(rows, order_id) == OrderRows(rows, order_id)

RefundTargets(rows, order_id) ==
    {r \in OrderRows(rows, order_id) : r.refunded_at = 0}

Refund(rows, order_id, amount, stamp, f) ==
    LET hit == RefundTargets(rows, order_id)
        after == (rows \ hit) \cup
                 {[r EXCEPT !.refund_amount = amount, !.refunded_at = stamp] : r \in hit}
        n == Cardinality(hit)
        found == OrderRows(after, order_id)
    IN  IF order_id = 0 THEN [rows |-> rows, n |-> 0, err |-> ErrOrderIdRequired]
        ELSE IF f = "exec_err" THEN [rows |-> rows, n |-> 0, err |-> ErrStore]
        ELSE IF f = "late_err" THEN [rows |-> after, n |-> n, err |-> ErrStore]
        ELSE IF n > 0 THEN [rows |-> after, n |-> n, err |-> Nil]
        ELSE IF f = "scan_err" THEN [rows |-> after, n |-> n, err |-> ErrStore]
        ELSE IF found = {} THEN [rows |-> after, n |-> n, err |-> ErrNotCharged]
        ELSE IF \E r \in found : r.refunded_at # 0
                THEN [rows |-> after, n |-> n, err |-> ErrAlreadyRefunded]
        ELSE [rows |-> after, n |-> n, err |-> ErrNotCharged]

\* ----------------------------------------------------- PostgresDriverClient
\* Assign: INSERT ... ON CONFLICT (order_id) DO NOTHING, then a SELECT when no
\* row was inserted
Assign(rows, order_id, driver_id, f) ==
    LET row == [order_id |-> order_id, driver_id |-> driver_id]
        after == IF OrderRows(rows, order_id) # {} THEN rows ELSE rows \cup {row}
        n == Cardinality(after) - Cardinality(rows)
        found == OrderRows(after, order_id)
    IN  IF order_id = 0 \/ driver_id = "" THEN [rows |-> rows, err |-> ErrIdsRequired]
        ELSE IF f = "exec_err" THEN [rows |-> rows, err |-> ErrStore]
        ELSE IF f = "late_err" THEN [rows |-> after, err |-> ErrStore]
        ELSE IF n > 0 THEN [rows |-> after, err |-> Nil]
        ELSE IF f = "scan_err" THEN [rows |-> after, err |-> ErrStore]
        ELSE IF found = {} THEN [rows |-> after, err |-> ErrAssignmentNotFound]
        ELSE IF \E r \in found : r.driver_id = driver_id
                THEN [rows |-> after, err |-> Nil]
        ELSE [rows |-> after, err |-> ErrDifferentDriver]

\* ------------------------------------------------------ reliability wrapper
\* RetryPolicy.Do: the number of attempts and the default ShouldRetry
Attempts == IF MaxAttempts < 1 THEN 1 ELSE MaxAttempts

\* mutant: a circuit-open error is retried
ShouldRetryCircuitOpen(e) == e \notin {ErrCanceled, ErrDeadlineExceeded}

ShouldRetry(e) == e \notin {ErrCanceled, ErrDeadlineExceeded, ErrCircuitOpen}

\* What precedes the wrapped call in one attempt: the ctx.Err() check of Do,
\* limiter.Wait and the breaker's admission.  With a cancelled context the
\* attempt ends there; otherwise the call is admitted or the breaker, which
\* is shared with every other caller, rejects it.
Gate(c) == IF ctxDone[c] THEN {"canceled"} ELSE {"admit", "circuit_open"}

GateErr(g) == IF g = "canceled" THEN ErrCanceled ELSE ErrCircuitOpen

\* Do after an attempt returned e: return, or sleep and go round again
SleepReached(att, e) == e # Nil /\ att # Attempts /\ ShouldRetry(e)

\* mutant: exhausted attempts leave the loop and reach the final return nil
DoReturnsNilWhenExhausted(att, e, s) ==
    IF e = Nil THEN [returns |-> TRUE, err |-> Nil]
    ELSE IF att = Attempts THEN [returns |-> TRUE, err |-> Nil]
    ELSE IF ~ShouldRetry(e) THEN [returns |-> TRUE, err |-> e]
    ELSE IF s = "interrupted" THEN [returns |-> TRUE, err |-> ErrCanceled]
    ELSE [returns |-> FALSE, err |-> e]

Do(att, e, s) ==
    IF e = Nil THEN [returns |-> TRUE, err |-> Nil]
    ELSE IF att = Attempts \/ ~ShouldRetry(e) THEN [returns |-> TRUE, err |-> e]
    ELSE IF s = "interrupted" THEN [returns |-> TRUE, err |-> ErrCanceled]
    ELSE [returns |-> FALSE, err |-> e]

\* the choices of one attempt: gate outcome g, statement outcome f, and
\* whether the context is cancelled during the sleep that follows
AttemptChoice(c, g, f, s, e) ==
    /\ g # "admit" => f = "ok"
    /\ ~SleepReached(attempt[c], e) => s = "slept"
    /\ Inject(Cost(g) + Cost(f) + Cost(s))
    /\ ctxDone' = [ctxDone EXCEPT ![c] = @ \/ s = "interrupted"]

\* the side effects CreateOrder invoked and how each returned
Logged(c, op, r) ==
    calls' = [calls EXCEPT ![c] =
                (IF attempt[c] = 1 THEN Append(@, <<op, "call">>) ELSE @)
                \o (IF ~r.returns THEN << >>
                    ELSE IF r.err = Nil THEN << <<op, "ok">> >>
                    ELSE << <<op, "failed">> >>)]

\* mutant: the error branch falls through instead of returning
GotoFallsThrough(c, r, ok, failed) ==
    /\ attempt' = [attempt EXCEPT ![c] = IF r.returns THEN 1 ELSE @ + 1]
    /\ pc' = [pc EXCEPT ![c] = IF ~r.returns THEN @ ELSE ok]

Goto(c, r, ok, failed) ==
    /\ attempt' = [attempt EXCEPT ![c] = IF r.returns THEN 1 ELSE @ + 1]
    /\ pc' = [pc EXCEPT ![c] = IF ~r.returns THEN @
                               ELSE IF r.err = Nil THEN ok ELSE failed]

\* one attempt of ReliablePaymentClient.Charge, line 85 of CreateOrder
ChargeAttempt(c) ==
    /\ pc[c] = "L85"
    /\ \E g \in Gate(c),
          f \in {"ok", "exec_err", "late_err"}, s \in {"slept", "interrupted"} :
          LET base == IF g = "admit"
                         THEN Charge(payments, idGen(c), req[c].amount, f)
                         ELSE [rows |-> payments, err |-> GateErr(g)]
              r == Do(attempt[c], base.err, s)
          IN  /\ AttemptChoice(c, g, f, s, base.err)
              /\ payments' = base.rows
              /\ Logged(c, "charge", r)
              /\ Goto(c, r, "L90", "L86")
              /\ err' = [err EXCEPT ![c] = IF r.returns THEN r.err ELSE @]
    /\ UNCHANGED <<order_sagas, order_saga_steps, order_assignments, refund_effects,
                   req, affected, start, refundErr, statuses, result>>
    /\ UNCHANGED <<updateErr, reliabilityVars, ingestVars, laterVars>>

\* one attempt of ReliableDriverClient.Assign, line 93 of CreateOrder
AssignAttempt(c) ==
    /\ pc[c] = "L93"
    /\ \E g \in Gate(c),
          f \in {"ok", "exec_err", "late_err", "scan_err"}, s \in {"slept", "interrupted"} :
          LET base == IF g = "admit"
                         THEN Assign(order_assignments, idGen(c), req[c].driver_id, f)
                         ELSE [rows |-> order_assignments, err |-> GateErr(g)]
              r == Do(attempt[c], base.err, s)
          IN  /\ AttemptChoice(c, g, f, s, base.err)
              /\ order_assignments' = base.rows
              /\ Logged(c, "assign", r)
              /\ Goto(c, r, "L107", "L94")
              /\ err' = [err EXCEPT ![c] = IF r.returns THEN r.err ELSE @]
    /\ UNCHANGED <<order_sagas, order_saga_steps, payments, refund_effects,
                   req, affected, start, refundErr, statuses, result>>
    /\ UNCHANGED <<updateErr, reliabilityVars, ingestVars, laterVars>>

\* one attempt of ReliablePaymentClient.Refund, line 97 of CreateOrder
RefundAttempt(c) ==
    /\ pc[c] = "L97"
    /\ \E g \in Gate(c),
          f \in {"ok", "exec_err", "late_err", "scan_err"}, s \in {"slept", "interrupted"} :
          LET base == IF g = "admit"
                         THEN Refund(payments, idGen(c), req[c].amount,
                                     refund_effects[idGen(c)] + 1, f)
                         ELSE [rows |-> payments, n |-> 0, err |-> GateErr(g)]
              r == Do(attempt[c], base.err, s)
          IN  /\ AttemptChoice(c, g, f, s, base.err)
              /\ payments' = base.rows
              /\ refund_effects' = [refund_effects EXCEPT ![idGen(c)] = @ + base.n]
              /\ Logged(c, "refund", r)
              /\ Goto(c, r, "L102", "L98")
              /\ refundErr' = [refundErr EXCEPT ![c] = IF r.returns THEN r.err ELSE @]
    /\ UNCHANGED <<order_sagas, order_saga_steps, order_assignments,
                   req, affected, start, err, statuses, result>>
    /\ UNCHANGED <<updateErr, reliabilityVars, ingestVars, laterVars>>

\* ------------------------------------------------------------- environment
\* the caller cancels the context of an invocation in progress
Cancel(c) ==
    /\ pc[c] \notin {"idle", "done"}
    /\ ~ctxDone[c]
    /\ Inject(1)
    /\ ctxDone' = [ctxDone EXCEPT ![c] = TRUE]
    /\ UNCHANGED <<tables, locals>>
    /\ UNCHANGED <<updateErr, reliabilityVars, ingestVars, laterVars>>

Next ==
    \E c \in Calls :
        \/ Begin(c)
        \/ StartInsert(c)
        \/ StartSelect(c)
        \/ AfterStart(c)
        \/ AddStep(c)
        \/ ChargeAttempt(c)
        \/ AssignAttempt(c)
        \/ RefundAttempt(c)
        \/ UpdateStatus(c)
        \/ Cancel(c)

Spec == Init /\ [][Next]_vars

\* the goroutines of CreateOrder are scheduled and the statements they send
\* return: the service does not stop while one of them can take a step
SpecFair == Init /\ [][Next]_vars /\ WF_vars(Next)
\* --------------------------------------------------- CircuitBreaker.Execute
\* Execute reads the clock, takes the mutex to decide on admission, runs fn
\* without the mutex and takes the mutex again to account for the outcome.
\* Tasks call Execute concurrently; each of the three parts is one step.

\* the first critical section: the breaker after it, and whether fn runs
Admit(b, now) ==
    IF b.state = circuitOpen /\ now - b.openedAt < b.resetAfter
       THEN [breaker |-> b, err |-> ErrCircuitOpen]
    ELSE IF b.state = circuitHalfOpen /\ b.halfOpenFlight
       THEN [breaker |-> b, err |-> ErrCircuitOpen]
    ELSE LET st == IF b.state = circuitOpen THEN circuitHalfOpen ELSE b.state
         IN  [breaker |-> [b EXCEPT !.state = st,
                                    !.halfOpenFlight = IF st = circuitHalfOpen
                                                          THEN TRUE ELSE @],
              err |-> Nil]

\* the second critical section without the reset of the half-open marker
AccountKeepsMarker(b, now, e) ==
    IF e = Nil THEN [b EXCEPT !.state = circuitClosed, !.failures = 0]
    ELSE IF b.state = circuitHalfOpen
       THEN [b EXCEPT !.state = circuitOpen, !.openedAt = now, !.failures = 0]
    ELSE IF b.failures + 1 >= b.maxFails
       THEN [b EXCEPT !.failures = @ + 1, !.state = circuitOpen, !.openedAt = now]
    ELSE [b EXCEPT !.failures = @ + 1]

\* the second critical section, after fn returned e
Account(b, now, e) ==
    LET b1 == IF b.state = circuitHalfOpen
                 THEN [b EXCEPT !.halfOpenFlight = FALSE] ELSE b
    IN  IF e = Nil THEN [b1 EXCEPT !.state = circuitClosed, !.failures = 0]
        ELSE IF b1.state = circuitHalfOpen
           THEN [b1 EXCEPT !.state = circuitOpen, !.openedAt = now, !.failures = 0]
        ELSE IF b1.failures + 1 >= b1.maxFails
           THEN [b1 EXCEPT !.failures = @ + 1, !.state = circuitOpen, !.openedAt = now]
        ELSE [b1 EXCEPT !.failures = @ + 1]

\* the frames after a step of task t that leaves it the frame f: open says
\* that the breaker was open when the task read the clock and has been since
Frames(t, f, b) ==
    [u \in Tasks |->
        [(IF u = t THEN f ELSE exec[u]) EXCEPT !.open = @ /\ b.state = circuitOpen]]

\* now := c.now()
ExecuteNow(t) ==
    /\ exec[t].pc = "idle"
    /\ exec' = [exec EXCEPT ![t] =
          [pc |-> "lock", now |-> clock, open |-> breaker.state = circuitOpen,
           trial |-> FALSE, ret |-> Nil]]
    /\ UNCHANGED <<breaker, clock, opened, streak>>
    /\ UNCHANGED <<sagaVars, retryVars, limiterVars, ingestVars, laterVars>>

\* from c.mu.Lock() to the return of ErrCircuitOpen or the call of fn
ExecuteAdmit(t) ==
    /\ exec[t].pc = "lock"
    /\ LET a == Admit(breaker, exec[t].now)
       IN  /\ breaker' = a.breaker
           /\ exec' = Frames(t,
                 IF a.err # Nil
                    THEN [exec[t] EXCEPT !.pc = "idle", !.ret = a.err]
                    ELSE [exec[t] EXCEPT !.pc = "fn",
                                         !.trial = a.breaker.state = circuitHalfOpen],
                 a.breaker)
    /\ UNCHANGED <<clock, opened, streak>>
    /\ UNCHANGED <<sagaVars, retryVars, limiterVars, ingestVars, laterVars>>

\* fn returns and Execute accounts for its outcome
ExecuteReturn(t) ==
    /\ exec[t].pc = "fn"
    /\ \E e \in {Nil, ErrStore} :
          /\ breaker' = Account(breaker, exec[t].now, e)
          /\ exec' = Frames(t, [exec[t] EXCEPT !.pc = "idle", !.ret = e],
                            Account(breaker, exec[t].now, e))
          /\ streak' = IF e = Nil THEN 0
                       ELSE IF streak < breaker.maxFails THEN streak + 1 ELSE streak
    /\ opened' = IF breaker.state # circuitOpen /\ breaker'.state = circuitOpen
                    THEN clock ELSE opened
    /\ UNCHANGED clock
    /\ UNCHANGED <<sagaVars, retryVars, limiterVars, ingestVars, laterVars>>

\* a second passes
Tick ==
    /\ clock < MaxClock
    /\ clock' = clock + 1
    /\ UNCHANGED <<breaker, exec, opened, streak>>
    /\ UNCHANGED <<sagaVars, retryVars, limiterVars, ingestVars, laterVars>>

BreakerNext ==
    \/ \E t \in Tasks :
          \/ ExecuteNow(t)
          \/ ExecuteAdmit(t)
          \/ ExecuteReturn(t)
    \/ Tick

SpecBreaker == BreakerInit /\ [][BreakerNext]_vars

\* ----------------------------------------------------------- RetryPolicy.Do
\* mutant: MaxAttempts below 1 is not raised to 1
PolicyAttemptsAsGiven(p) == p.MaxAttempts

PolicyAttempts(p) == IF p.MaxAttempts < 1 THEN 1 ELSE p.MaxAttempts

PolicyShouldRetry(p, e) == IF p.ShouldRetry = "default" THEN ShouldRetry(e) ELSE TRUE

\* the delay Do computes after failed attempt att, before jitter
Backoff(p, att) ==
    LET delay == IF Positive(p.BaseDelay) THEN ShiftLeft(p.BaseDelay, att - 1)
                 ELSE p.BaseDelay
    IN  IF Positive(p.MaxDelay) /\ Greater(delay, p.MaxDelay) THEN p.MaxDelay
        ELSE delay

\* defaultJitter(d) is half + rand.Int63n(half + 1) with half = d / 2; of the
\* values it can return the model keeps the least and the greatest
defaultJitter(d) ==
    IF ~Positive(d) THEN {Zero}
    ELSE IF d.exp = 0 THEN {Zero}
    ELSE {Pow2(d.exp - 1), d}

\* the values jitter(d) can return
Jitter(p, d) == IF p.Jitter = "default" THEN defaultJitter(d) ELSE {d}

\* mutant: Do wraps the error it returns
DoReturnWrapped(e) ==
    loop' = [loop EXCEPT !.pc = "returned",
                         !.ret = IF e = Nil THEN Nil ELSE <<"retry failed">> \o e]

DoReturn(e) == loop' = [loop EXCEPT !.pc = "returned", !.ret = e]

\* the loop condition and the ctx.Err() check in front of each attempt
DoCheck ==
    /\ loop.pc = "for"
    /\ IF loop.attempt > PolicyAttempts(policy) THEN DoReturn(Nil)
       ELSE IF ctxErr # Nil THEN DoReturn(ctxErr)
       ELSE loop' = [loop EXCEPT !.pc = "fn"]
    /\ UNCHANGED <<policy, ctxErr, fnCalls, sleeps>>
    /\ UNCHANGED <<sagaVars, breakerVars, limiterVars, ingestVars, laterVars>>

\* err := fn() and what Do does with it, up to the call of sleep
DoCall ==
    /\ loop.pc = "fn"
    /\ \E e \in FnErrors :
          /\ fnCalls' = Append(fnCalls, e)
          /\ IF e = Nil THEN DoReturn(Nil)
             ELSE IF loop.attempt = PolicyAttempts(policy)
                     \/ ~PolicyShouldRetry(policy, e)
                THEN DoReturn(e)
             ELSE \E d \in Jitter(policy, Backoff(policy, loop.attempt)) :
                     loop' = IF Positive(d)
                                THEN [loop EXCEPT !.pc = "sleep", !.delay = d]
                                ELSE [loop EXCEPT !.pc = "for", !.delay = d,
                                                  !.attempt = @ + 1]
    /\ UNCHANGED <<policy, ctxErr, sleeps>>
    /\ UNCHANGED <<sagaVars, breakerVars, limiterVars, ingestVars, laterVars>>

\* what sleepWithContext(ctx, d) can return for d > 0: ctx.Err() when the
\* context is done, nil when the timer fires
sleepWithContext == {Nil, ctxErr}

\* mutant: Do goes on to the next attempt whatever sleep returned
DoSleepIgnoresError ==
    /\ loop.pc = "sleep"
    /\ sleeps' = Append(sleeps, loop.delay)
    /\ \E e \in sleepWithContext :
          loop' = [loop EXCEPT !.pc = "for", !.slept = e, !.attempt = @ + 1]
    /\ UNCHANGED <<policy, ctxErr, fnCalls>>
    /\ UNCHANGED <<sagaVars, breakerVars, limiterVars, ingestVars, laterVars>>

\* sleep(ctx, delay) and the return of its error
DoSleep ==
    /\ loop.pc = "sleep"
    /\ sleeps' = Append(sleeps, loop.delay)
    /\ \E e \in sleepWithContext :
          IF e # Nil THEN loop' = [loop EXCEPT !.pc = "returned", !.slept = e,
                                              !.ret = e]
          ELSE loop' = [loop EXCEPT !.pc = "for", !.slept = e, !.attempt = @ + 1]
    /\ UNCHANGED <<policy, ctxErr, fnCalls>>
    /\ UNCHANGED <<sagaVars, breakerVars, limiterVars, ingestVars, laterVars>>

\* the caller's context is cancelled or reaches its deadline
CtxDone ==
    /\ loop.pc # "returned"
    /\ ctxErr = Nil
    /\ ctxErr' \in {ErrCanceled, ErrDeadlineExceeded}
    /\ UNCHANGED <<policy, loop, fnCalls, sleeps>>
    /\ UNCHANGED <<sagaVars, breakerVars, limiterVars, ingestVars, laterVars>>

RetryNext ==
    \/ DoCheck
    \/ DoCall
    \/ DoSleep
    \/ CtxDone

SpecRetry == RetryInit /\ [][RetryNext]_vars

\* ----------------------------------------------------------- RateLimiter.Wait
Degenerate(r) == r.rate <= 0 \/ r.burst <= 0

\* mutant: refill adds the tokens without the cap at burst
refillUncapped(r, now) ==
    IF r.rate <= 0 THEN [r EXCEPT !.tokens = r.burst, !.last = now]
    ELSE LET elapsed == now - r.last
             add == elapsed \div r.rate
         IN  IF elapsed < r.rate \/ add <= 0 THEN r
             ELSE [r EXCEPT !.tokens = @ + add, !.last = @ + add * r.rate]

refill(r, now) ==
    IF r.rate <= 0 THEN [r EXCEPT !.tokens = r.burst, !.last = now]
    ELSE LET elapsed == now - r.last
             add == elapsed \div r.rate
         IN  IF elapsed < r.rate \/ add <= 0 THEN r
             ELSE [r EXCEPT !.tokens = IF @ + add > r.burst THEN r.burst
                                       ELSE @ + add,
                            !.last = @ + add * r.rate]

WaitReturn(t, e) == wait' = [wait EXCEPT ![t].pc = "returned", ![t].ret = e]

\* Wait is called with a context that is live or already done; a limiter
\* with a degenerate configuration returns at once
WaitCall(t) ==
    /\ wait[t].pc \in {"idle", "returned"}
    /\ \E c \in {Nil, ErrCanceled, ErrDeadlineExceeded} :
          wait' = [wait EXCEPT ![t] =
                      IF Degenerate(limiter)
                         THEN [NoWait EXCEPT !.pc = "returned", !.ctx = c,
                                  !.ret = IF limiter.kind = "egress" THEN c ELSE Nil]
                         ELSE [NoWait EXCEPT !.pc = "for", !.ctx = c]]
    /\ UNCHANGED <<limiter, wallClock, admitted>>
    /\ UNCHANGED <<sagaVars, breakerVars, retryVars, ingestVars, laterVars>>

\* the ctx.Err() check at the head of the loop
WaitCheck(t) ==
    /\ wait[t].pc = "for"
    /\ IF wait[t].ctx # Nil THEN WaitReturn(t, wait[t].ctx)
       ELSE wait' = [wait EXCEPT ![t].pc = "lock"]
    /\ UNCHANGED <<limiter, wallClock, admitted>>
    /\ UNCHANGED <<sagaVars, breakerVars, retryVars, ingestVars, laterVars>>

\* the critical section of Wait: refill, then take a token or compute how
\* long to sleep
WaitLock(t) ==
    /\ wait[t].pc = "lock"
    /\ LET now == wallClock
           r == refill(limiter, now)
           d == r.rate - (now - r.last)
       IN  IF r.tokens > 0
              THEN /\ limiter' = [r EXCEPT !.tokens = @ - 1]
                   /\ admitted' = [admitted EXCEPT ![now] = @ + 1]
                   /\ WaitReturn(t, Nil)
              ELSE /\ limiter' = r
                   /\ admitted' = admitted
                   /\ wait' = [wait EXCEPT ![t].pc = IF d <= 0 THEN "for" ELSE "sleep",
                                           ![t].wake = now + d]
    /\ UNCHANGED wallClock
    /\ UNCHANGED <<sagaVars, breakerVars, retryVars, ingestVars, laterVars>>

\* mutant: Wait goes on to the lock although sleep returned an error
WaitSleepIgnoresError(t) ==
    /\ wait[t].pc = "sleep"
    /\ wallClock >= wait[t].wake \/ wait[t].ctx # Nil
    /\ wait' = [wait EXCEPT ![t].pc = "lock"]
    /\ UNCHANGED <<limiter, wallClock, admitted>>
    /\ UNCHANGED <<sagaVars, breakerVars, retryVars, ingestVars, laterVars>>

\* sleep(ctx, wait) returns: nil once the timer has fired, ctx.Err() once the
\* context is done
WaitSleep(t) ==
    /\ wait[t].pc = "sleep"
    /\ \/ /\ wallClock >= wait[t].wake
          /\ wait' = [wait EXCEPT ![t].pc = "for"]
       \/ /\ wait[t].ctx # Nil
          /\ WaitReturn(t, wait[t].ctx)
    /\ UNCHANGED <<limiter, wallClock, admitted>>
    /\ UNCHANGED <<sagaVars, breakerVars, retryVars, ingestVars, laterVars>>

\* the context of a Wait in progress is cancelled or reaches its deadline
WaitCancel(t) ==
    /\ wait[t].pc \in {"for", "lock", "sleep"}
    /\ wait[t].ctx = Nil
    /\ \E c \in {ErrCanceled, ErrDeadlineExceeded} :
          wait' = [wait EXCEPT ![t].ctx = c]
    /\ UNCHANGED <<limiter, wallClock, admitted>>
    /\ UNCHANGED <<sagaVars, breakerVars, retryVars, ingestVars, laterVars>>

\* time passes
WallTick ==
    /\ wallClock < MaxWall
    /\ wallClock' = wallClock + 1
    /\ UNCHANGED <<limiter, wait, admitted>>
    /\ UNCHANGED <<sagaVars, breakerVars, retryVars, ingestVars, laterVars>>

LimiterNext ==
    \/ \E t \in Waiters :
          \/ WaitCall(t)
          \/ WaitCheck(t)
          \/ WaitLock(t)
          \/ WaitSleep(t)
          \/ WaitCancel(t)
    \/ WallTick

SpecLimiter == LimiterInit /\ [][LimiterNext]_vars

\* Time passes once the clock shows MaxWall.  Wait and refill use instants
\* only through their differences (now.Sub(r.last), the timer of sleep), so
\* the origin of the clock moves with the clock: every stored instant is one
\* less, and the record of admissions moves with them.  An age of the bucket
\* of burst + 1 intervals or more fills the bucket whatever it is, so it is
\* kept below that, its remainder by rate unchanged.
TimeGoesOn ==
    /\ wallClock = MaxWall
    /\ limiter' = [limiter EXCEPT !.last =
          IF limiter.rate <= 0 THEN @
          ELSE IF wallClock + 1 - @ >= limiter.rate * (limiter.burst + 1)
             THEN @ - 1 + limiter.rate
          ELSE @ - 1]
    /\ wait' = [t \in Waiters |->
                   [wait[t] EXCEPT !.wake = IF @ > 0 THEN @ - 1 ELSE 0]]
    /\ admitted' = [i \in Instants |->
                       IF i < MaxWall THEN admitted[i + 1] ELSE 0]
    /\ UNCHANGED wallClock
    /\ UNCHANGED <<sagaVars, breakerVars, retryVars, ingestVars, laterVars>>

\* the steps of the goroutine of waiter t inside Wait
WaitStep(t) == WaitCheck(t) \/ WaitLock(t) \/ WaitSleep(t)

LimiterFairNext ==
    \/ LimiterNext
    \/ TimeGoesOn

\* the clock keeps advancing and the scheduler lets every goroutine that can
\* take a step inside Wait take one; callers need not call, contexts need not
\* be cancelled
SpecLimiterFair ==
    /\ LimiterInit
    /\ [][LimiterFairNext]_vars
    /\ WF_vars(WallTick \/ TimeGoesOn)
    /\ \A t \in Waiters : WF_vars(WaitStep(t))

\* ---------------------------------------------------- Server.UpdateLocation
notIngest == <<sagaVars, breakerVars, retryVars, limiterVars, laterVars>>

StreamEnds(code, e) ==
    handler' = [handler EXCEPT !.pc = "done", !.code = code, !.err = e]

\* msg, err := stream.Recv(): the next message, io.EOF or another error; on
\* EOF the acknowledgement is sent, which can fail as well
StreamRecv ==
    /\ handler.pc = "recv"
    /\ \/ /\ Len(recvd) < MaxMsgs
          /\ \E m \in Messages :
                /\ recvd' = Append(recvd, m)
                /\ handler' = [handler EXCEPT !.pc = "convert", !.msg = Len(recvd) + 1]
          /\ acked' = acked
       \/ /\ acked' = acked + 1
          /\ \E e \in {Nil, ErrRecv} : StreamEnds(IF e = Nil THEN "OK" ELSE "Unknown", e)
          /\ recvd' = recvd
       \/ /\ StreamEnds("Internal", <<"recv">> \o ErrRecv)
          /\ UNCHANGED <<recvd, acked>>
    /\ UNCHANGED <<broadcaster, ingested, pub, hub, broadcastCh, hubIn>>
    /\ UNCHANGED notIngest

\* the timestamp check, NewLocation and the call of Ingest, which is the
\* call of the publisher's Publish
StreamConvert ==
    /\ handler.pc = "convert"
    /\ LET msg == recvd[handler.msg]
           ts == IF msg.timestamp = "nil" THEN "zero" ELSE msg.timestamp
           n == NewLocation(msg.driver_id, msg.latitude, msg.longitude, ts)
       IN  IF msg.timestamp = "invalid"
              THEN /\ StreamEnds("InvalidArgument", <<"invalid timestamp">>)
                   /\ UNCHANGED <<ingested, pub>>
           ELSE IF n.err # Nil
              THEN /\ StreamEnds("InvalidArgument", <<"invalid location">> \o n.err)
                   /\ UNCHANGED <<ingested, pub>>
           ELSE /\ handler' = [handler EXCEPT !.pc = "ingest", !.loc = n.loc]
                /\ ingested' = Append(ingested, n.loc)
                /\ pub' = [NoPublish EXCEPT !.pc = "update", !.loc = n.loc]
    /\ UNCHANGED <<broadcaster, recvd, acked, hub, broadcastCh, hubIn>>
    /\ UNCHANGED notIngest

\* Ingest has returned: its error ends the stream, nil goes on to Recv
StreamIngested ==
    /\ handler.pc = "ingest"
    /\ pub.pc = "returned"
    /\ IF pub.ret # Nil THEN StreamEnds("Internal", <<"ingest">> \o pub.ret)
       ELSE handler' = [handler EXCEPT !.pc = "recv"]
    /\ UNCHANGED <<broadcaster, recvd, ingested, acked, pub, hub, broadcastCh, hubIn>>
    /\ UNCHANGED notIngest

\* ------------------------------------------------ MultiLocationStore.Update
\* mutant: Update returns at the first store that fails
UpdateStoreStopsAtError ==
    /\ pub.pc = "update"
    /\ pub.i <= NumStores
    /\ \E e \in {Nil, StoreErr(pub.i)} :
          pub' = [pub EXCEPT !.called = Append(@, [store |-> pub.i, err |-> e]),
                             !.errs = IF e = Nil THEN @ ELSE Append(@, e),
                             !.i = IF e = Nil THEN @ + 1 ELSE NumStores + 1]
    /\ UNCHANGED <<broadcaster, handler, recvd, ingested, acked, hub, broadcastCh, hubIn>>
    /\ UNCHANGED notIngest

\* one iteration of the loop: store.Update(ctx, loc) of the next store
UpdateStore ==
    /\ pub.pc = "update"
    /\ pub.i <= NumStores
    /\ \E e \in {Nil, StoreErr(pub.i)} :
          pub' = [pub EXCEPT !.called = Append(@, [store |-> pub.i, err |-> e]),
                             !.errs = IF e = Nil THEN @ ELSE Append(@, e),
                             !.i = @ + 1]
    /\ UNCHANGED <<broadcaster, handler, recvd, ingested, acked, hub, broadcastCh, hubIn>>
    /\ UNCHANGED notIngest

\* --------------------------------------------------- FanoutPublisher.Publish
\* mutant: Publish goes on to the broadcast although the inner publisher
\* failed
PublishInnerIgnoresError ==
    /\ pub.pc = "update"
    /\ pub.i > NumStores
    /\ LET e == Join(pub.errs)
           g == GetShardID(pub.loc.Lat, pub.loc.Long)
           p == [pub EXCEPT !.inner = e, !.log = Append(@, "inner")]
       IN  pub' = IF g.err # Nil THEN [p EXCEPT !.pc = "returned", !.ret = g.err]
                  ELSE [p EXCEPT !.pc = "broadcast",
                                 !.data = [type |-> "location",
                                           driver_id |-> pub.loc.DriverID,
                                           lat |-> pub.loc.Lat, long |-> pub.loc.Long,
                                           shard |-> g.shard,
                                           timestamp |-> pub.loc.Timestamp]]
    /\ UNCHANGED <<broadcaster, handler, recvd, ingested, acked, hub, broadcastCh, hubIn>>
    /\ UNCHANGED notIngest

\* the inner publisher has returned errors.Join(errs...); Publish returns
\* its error, or computes the shard and marshals the payload
PublishInner ==
    /\ pub.pc = "update"
    /\ pub.i > NumStores
    /\ LET e == Join(pub.errs)
           g == GetShardID(pub.loc.Lat, pub.loc.Long)
           p == [pub EXCEPT !.inner = e, !.log = Append(@, "inner")]
       IN  pub' = IF e # Nil THEN [p EXCEPT !.pc = "returned", !.ret = e]
                  ELSE IF g.err # Nil THEN [p EXCEPT !.pc = "returned", !.ret = g.err]
                  ELSE [p EXCEPT !.pc = "broadcast",
                                 !.data = [type |-> "location",
                                           driver_id |-> pub.loc.DriverID,
                                           lat |-> pub.loc.Lat, long |-> pub.loc.Long,
                                           shard |-> g.shard,
                                           timestamp |-> pub.loc.Timestamp]]
    /\ UNCHANGED <<broadcaster, handler, recvd, ingested, acked, hub, broadcastCh, hubIn>>
    /\ UNCHANGED notIngest

\* the hub's goroutine is in its select, ready to receive
Receiving == hub.pc = "select" /\ broadcastCh = << >>

\* mutant: the send waits for the hub
BroadcastBlocking ==
    /\ pub.pc = "broadcast"
    /\ ~broadcaster \/ Receiving
    /\ pub' = [pub EXCEPT !.pc = "returned", !.ret = Nil,
                          !.log = IF broadcaster THEN Append(@, "broadcast") ELSE @]
    /\ IF broadcaster
          THEN /\ hub' = [hub EXCEPT !.pc = "broadcast", !.msg = pub.data]
               /\ hubIn' = Append(hubIn, pub.data)
          ELSE UNCHANGED <<hub, hubIn>>
    /\ UNCHANGED <<broadcaster, handler, recvd, ingested, acked, broadcastCh>>
    /\ UNCHANGED notIngest

\* p.broadcaster.Broadcast(data) when there is a broadcaster, and return nil:
\* the select sends when the hub is receiving or the buffer has room, and
\* takes the default otherwise
Broadcast ==
    /\ pub.pc = "broadcast"
    /\ pub' = [pub EXCEPT !.pc = "returned", !.ret = Nil,
                          !.log = IF broadcaster THEN Append(@, "broadcast") ELSE @]
    /\ IF broadcaster /\ Receiving
          THEN /\ hub' = [hub EXCEPT !.pc = "broadcast", !.msg = pub.data]
               /\ hubIn' = Append(hubIn, pub.data)
               /\ broadcastCh' = broadcastCh
       ELSE IF broadcaster /\ Len(broadcastCh) < BroadcastCap
          THEN /\ broadcastCh' = Append(broadcastCh, pub.data)
               /\ UNCHANGED <<hub, hubIn>>
       ELSE UNCHANGED <<hub, hubIn, broadcastCh>>
    /\ UNCHANGED <<broadcaster, handler, recvd, ingested, acked>>
    /\ UNCHANGED notIngest

\* ------------------------------------------------------------------ Hub.Run
\* the select of Run takes a connection from Register or Unregister, or a
\* message left in the buffer of Broadcast
HubSelect ==
    /\ hub.pc = "select"
    /\ \/ /\ \E c \in Conns :
                hub' = [hub EXCEPT !.pc = "register", !.conns = @ \cup {c}]
          /\ UNCHANGED <<broadcastCh, hubIn>>
       \/ /\ \E c \in Conns :
                hub' = [hub EXCEPT !.pc = "unregister", !.conns = @ \ {c}]
          /\ UNCHANGED <<broadcastCh, hubIn>>
       \/ /\ broadcastCh # << >>
          /\ hub' = [hub EXCEPT !.pc = "broadcast", !.msg = Head(broadcastCh)]
          /\ hubIn' = Append(hubIn, Head(broadcastCh))
          /\ broadcastCh' = Tail(broadcastCh)
    /\ UNCHANGED <<broadcaster, handler, recvd, ingested, acked, pub>>
    /\ UNCHANGED notIngest

\* the case of the select is done, a broadcast having written the message to
\* every connection and dropped those whose write failed
HubLoop ==
    /\ hub.pc # "select"
    /\ \E failed \in SUBSET hub.conns :
          hub' = [hub EXCEPT !.pc = "select",
                             !.conns = IF hub.pc = "broadcast" THEN @ \ failed ELSE @]
    /\ UNCHANGED <<broadcaster, handler, recvd, ingested, acked, pub, broadcastCh, hubIn>>
    /\ UNCHANGED notIngest

IngestNext ==
    \/ StreamRecv
    \/ StreamConvert
    \/ StreamIngested
    \/ UpdateStore
    \/ PublishInner
    \/ Broadcast
    \/ HubSelect
    \/ HubLoop

SpecIngest == IngestInit /\ [][IngestNext]_vars

\* ------------------------------------- PostgresDriverClient.Assign, stepwise
\* Assign as the statements it sends, for callers that share an order: the
\* INSERT and the SELECT of one call are separate steps, and Assign calls of
\* other callers run between them.
notDriver == <<order_sagas, order_saga_steps, payments, refund_effects, locals,
               updateErr, ctxDone, faults, reliabilityVars, ingestVars, metricsVars,
               shutdownVars, wrapVars>>

AssignReturn(t, rows, n, e) ==
    /\ order_assignments' = rows
    /\ assign' = [assign EXCEPT ![t].pc = "returned", ![t].affected = n, ![t].ret = e]

\* the call and its argument check
AssignCall(t) ==
    /\ assign[t].pc = "idle"
    /\ \E a \in AssignArgs :
          assign' = [assign EXCEPT ![t] =
              IF a.order_id = 0 \/ a.driver_id = ""
                 THEN [NoAssign EXCEPT !.pc = "returned", !.order_id = a.order_id,
                                       !.driver_id = a.driver_id, !.ret = ErrIdsRequired]
                 ELSE [NoAssign EXCEPT !.pc = "insert", !.order_id = a.order_id,
                                       !.driver_id = a.driver_id]]
    /\ UNCHANGED <<order_assignments, notDriver>>

\* mutant: the INSERT has no ON CONFLICT (order_id) DO NOTHING, and no
\* unique index stops it
AssignInsertAlways(t) ==
    /\ assign[t].pc = "insert"
    /\ \E f \in {"ok", "exec_err", "late_err"} :
          LET row == [order_id |-> assign[t].order_id, driver_id |-> assign[t].driver_id]
              after == order_assignments \cup {row}
          IN  IF f = "exec_err" THEN AssignReturn(t, order_assignments, 0, ErrStore)
              ELSE IF f = "late_err" THEN AssignReturn(t, after, 0, ErrStore)
              ELSE AssignReturn(t, after, 1, Nil)
    /\ UNCHANGED notDriver

\* INSERT ... ON CONFLICT (order_id) DO NOTHING, RowsAffected, and the
\* return when a row was inserted
AssignInsert(t) ==
    /\ assign[t].pc = "insert"
    /\ \E f \in {"ok", "exec_err", "late_err"} :
          LET row == [order_id |-> assign[t].order_id, driver_id |-> assign[t].driver_id]
              after == IF OrderRows(order_assignments, row.order_id) # {}
                          THEN order_assignments
                          ELSE order_assignments \cup {row}
              n == Cardinality(after) - Cardinality(order_assignments)
          IN  IF f = "exec_err" THEN AssignReturn(t, order_assignments, 0, ErrStore)
              ELSE IF f = "late_err" THEN AssignReturn(t, after, 0, ErrStore)
              ELSE IF n > 0 THEN AssignReturn(t, after, n, Nil)
              ELSE /\ assign' = [assign EXCEPT ![t].pc = "select", ![t].affected = 0]
                   /\ order_assignments' = order_assignments
    /\ UNCHANGED notDriver

\* SELECT driver_id ... WHERE order_id = $1, and the switch on the scan
AssignSelect(t) ==
    /\ assign[t].pc = "select"
    /\ \E f \in {"ok", "scan_err"} :
          LET found == OrderRows(order_assignments, assign[t].order_id)
          IN  IF f = "scan_err" THEN AssignReturn(t, order_assignments, 0, ErrStore)
              ELSE IF found = {}
                 THEN AssignReturn(t, order_assignments, 0, ErrAssignmentNotFound)
              ELSE IF \E r \in found : r.driver_id = assign[t].driver_id
                 THEN AssignReturn(t, order_assignments, 0, Nil)
              ELSE AssignReturn(t, order_assignments, 0, ErrDifferentDriver)
    /\ UNCHANGED notDriver

\* the caller has the result and may call again
AssignDone(t) ==
    /\ assign[t].pc = "returned"
    /\ assign' = [assign EXCEPT ![t] = NoAssign]
    /\ UNCHANGED <<order_assignments, notDriver>>

AssignNext ==
    \E t \in Assigners :
        AssignCall(t) \/ AssignInsert(t) \/ AssignSelect(t) \/ AssignDone(t)

SpecAssign == Init /\ [][AssignNext]_vars

\* ------------------------------------------------------------------ Metrics
\* The registry of per-method call statistics.  Start, finish and Snapshot
\* each hold m.mu for all they read and write, so each is one step.  The
\* rate-limit and lifecycle counters, which Start and End do not touch, are
\* left out, and so are their fields of the snapshot.
notMetrics == <<sagaVars, reliabilityVars, ingestVars, driverVars, shutdownVars,
               wrapVars>>

\* ensureMethod: the stats of a method, made on first use
ensureMethod(methods, method) ==
    IF method \in DOMAIN methods
       THEN methods
       ELSE [m \in DOMAIN methods \cup {method} |->
                IF m = method THEN NoStats ELSE methods[m]]

\* mutant: finish does not decrement inFlight
finishKeepsInFlight(stats, dur, failed) ==
    [count |-> stats.count + 1,
     errors |-> IF failed THEN stats.errors + 1 ELSE stats.errors,
     inFlight |-> stats.inFlight,
     totalLatency |-> stats.totalLatency + dur,
     maxLatency |-> IF dur > stats.maxLatency THEN dur ELSE stats.maxLatency,
     lastLatency |-> dur]

\* finish, on the stats of the method
finish(stats, dur, failed) ==
    [count |-> stats.count + 1,
     errors |-> IF failed THEN stats.errors + 1 ELSE stats.errors,
     inFlight |-> stats.inFlight - 1,
     totalLatency |-> stats.totalLatency + dur,
     maxLatency |-> IF dur > stats.maxLatency THEN dur ELSE stats.maxLatency,
     lastLatency |-> dur]

\* the sum of a counter over a set of methods, and of a field of the stats
\* over all methods as Snapshot's loop accumulates it
RECURSIVE Sum(_, _)
Sum(f, names) ==
    IF names = {} THEN 0
    ELSE LET m == CHOOSE x \in names : TRUE
         IN  f[m] + Sum(f, names \ {m})

Total(methods, field) ==
    Sum([m \in DOMAIN methods |-> methods[m][field]], DOMAIN methods)

\* the quotient of two float64, kept as the pair of its terms
Quotient(a, b) == [num |-> a, den |-> b]

\* Snapshot, on the methods map
Snapshot(methods) ==
    [TotalRequests |-> Total(methods, "count"),
     TotalErrors |-> Total(methods, "errors"),
     InFlight |-> Total(methods, "inFlight"),
     Methods |-> [m \in DOMAIN methods |->
        [Count |-> methods[m].count,
         Errors |-> methods[m].errors,
         InFlight |-> methods[m].inFlight,
         AvgLatencyMs |-> IF methods[m].count > 0
                             THEN Quotient(methods[m].totalLatency, methods[m].count)
                             ELSE Quotient(0, 1),
         MaxLatencyMs |-> methods[m].maxLatency,
         LastLatencyMs |-> methods[m].lastLatency]]]

\* an interceptor calls Metrics.Start for the method of its RPC
MetricsStart(t) ==
    /\ span[t].pc = "idle"
    /\ Sum(started, MethodNames) < MaxStarts
    /\ \E method \in MethodNames :
          LET methods == ensureMethod(metrics.methods, method)
          IN  /\ metrics' = [metrics EXCEPT !.methods =
                                [methods EXCEPT ![method].inFlight = @ + 1]]
              /\ span' = [span EXCEPT ![t] =
                              [pc |-> "open", method |-> method, start |-> uptime]]
              /\ started' = [started EXCEPT ![method] = @ + 1]
    /\ UNCHANGED <<uptime, snap, ended, notMetrics>>

\* the handler has returned and the interceptor calls CallSpan.End
SpanEnd(t) ==
    /\ span[t].pc = "open"
    /\ \E failed \in BOOLEAN :
          LET method == span[t].method
              methods == ensureMethod(metrics.methods, method)
          IN  /\ metrics' = [metrics EXCEPT !.methods =
                                [methods EXCEPT ![method] =
                                    finish(@, uptime - span[t].start, failed)]]
              /\ ended' = [ended EXCEPT ![method] = @ + 1]
    /\ span' = [span EXCEPT ![t] = NoSpan]
    /\ UNCHANGED <<uptime, snap, started, notMetrics>>

\* the metrics endpoint calls Metrics.Snapshot
TakeSnapshot ==
    /\ snap' = Snapshot(metrics.methods)
    /\ UNCHANGED <<metrics, span, uptime, started, ended, notMetrics>>

\* time passes
MetricsTick ==
    /\ uptime < MaxUptime
    /\ uptime' = uptime + 1
    /\ UNCHANGED <<metrics, span, snap, started, ended, notMetrics>>

MetricsNext ==
    \/ \E t \in Rpcs : MetricsStart(t) \/ SpanEnd(t)
    \/ TakeSnapshot
    \/ MetricsTick

SpecMetrics == Init /\ [][MetricsNext]_vars

\* ---------------------------------------------------------- run (shutdown)
\* run of cmd/server from its select on: the signal, the health statuses,
\* GracefulStop, the observability server, the deferred cleanups.  The
\* position of run is the call it makes next.
notShutdown == <<sagaVars, reliabilityVars, ingestVars, driverVars, metricsVars,
                wrapVars>>

\* a client opens an RPC, which the server takes while it accepts
RpcArrives(r) ==
    /\ accepting
    /\ r \notin inflight
    /\ inflight' = inflight \cup {r}
    /\ UNCHANGED <<run, sigterm, health, accepting, obsSrv, scraping, events, notShutdown>>

\* the handler of an RPC returns
RpcFinishes(r) ==
    /\ r \in inflight
    /\ inflight' = inflight \ {r}
    /\ UNCHANGED <<run, sigterm, health, accepting, obsSrv, scraping, events, notShutdown>>

\* a request to /metrics or /readyz arrives, and is answered
ObsRequest ==
    /\ obsSrv = "listening"
    /\ ~scraping
    /\ scraping' = TRUE
    /\ UNCHANGED <<run, sigterm, health, accepting, inflight, obsSrv, events, notShutdown>>

ObsResponse ==
    /\ scraping
    /\ scraping' = FALSE
    /\ UNCHANGED <<run, sigterm, health, accepting, inflight, obsSrv, events, notShutdown>>

\* SIGINT or SIGTERM: signal.NotifyContext cancels the context of run
Signal ==
    /\ ~sigterm
    /\ sigterm' = TRUE
    /\ UNCHANGED <<run, health, accepting, inflight, obsSrv, scraping, events, notShutdown>>

\* run does step e and goes on to position next
RunStep(e, next) ==
    /\ run' = next
    /\ events' = Append(events, e)

\* case <-ctx.Done(): the three SetServingStatus calls
SetNotServing(at, service, next) ==
    /\ run = at
    /\ at = "select" => sigterm
    /\ health' = [health EXCEPT ![service] = "NOT_SERVING"]
    /\ RunStep(<<"health", service>>, next)
    /\ UNCHANGED <<sigterm, accepting, inflight, obsSrv, scraping, notShutdown>>

\* case err := <-errCh: Serve has failed, run returns the error
ServeFails ==
    /\ run = "select"
    /\ accepting' = FALSE
    /\ inflight' = {}
    /\ RunStep(<<"serve", "error">>, "defer.cleanup")
    /\ UNCHANGED <<sigterm, health, obsSrv, scraping, notShutdown>>

\* server.GracefulStop: the listeners are closed and no new RPC is taken
GracefulStop ==
    /\ run = "GracefulStop"
    /\ accepting' = FALSE
    /\ RunStep(<<"grpc", "stop accepting">>, "GracefulStop.wait")
    /\ UNCHANGED <<sigterm, health, inflight, obsSrv, scraping, notShutdown>>

\* server.GracefulStop returns once every RPC being handled has finished
GracefulStopReturns ==
    /\ run = "GracefulStop.wait"
    /\ inflight = {}
    /\ RunStep(<<"grpc", "drained">>, "obsSrv.Shutdown")
    /\ UNCHANGED <<sigterm, health, accepting, inflight, obsSrv, scraping, notShutdown>>

\* obsSrv.Shutdown under a context that expires after two seconds: it
\* returns when the connections are idle or when the context expires
ObsShutdown ==
    /\ run = "obsSrv.Shutdown"
    /\ obsSrv' = "closed"
    /\ RunStep(<<"http", IF scraping THEN "shutdown timed out" ELSE "shutdown">>,
               "defer.cleanup")
    /\ UNCHANGED <<sigterm, health, accepting, inflight, scraping, notShutdown>>

\* the deferred calls, last deferred first: cleanup of the order service's
\* database handle, then cleanupStore of the location store
DeferredCleanup ==
    /\ run = "defer.cleanup"
    /\ RunStep(<<"release", "orders">>, "defer.cleanupStore")
    /\ UNCHANGED <<sigterm, health, accepting, inflight, obsSrv, scraping, notShutdown>>

DeferredCleanupStore ==
    /\ run = "defer.cleanupStore"
    /\ RunStep(<<"release", "location store">>, "returned")
    /\ UNCHANGED <<sigterm, health, accepting, inflight, obsSrv, scraping, notShutdown>>

\* the steps of the goroutine of run
RunNext ==
    \/ SetNotServing("select", "DriverService", "SetServingStatus.order")
    \/ SetNotServing("SetServingStatus.order", "OrderService", "SetServingStatus.all")
    \/ SetNotServing("SetServingStatus.all", "", "GracefulStop")
    \/ ServeFails
    \/ GracefulStop
    \/ GracefulStopReturns
    \/ ObsShutdown
    \/ DeferredCleanup
    \/ DeferredCleanupStore

ShutdownNext ==
    \/ \E r \in Streams : RpcArrives(r) \/ RpcFinishes(r)
    \/ ObsRequest
    \/ ObsResponse
    \/ Signal
    \/ RunNext

\* the goroutine of run is scheduled whenever it can take a step; no client
\* is bound to end its RPC
SpecShutdown == Init /\ [][ShutdownNext]_vars /\ WF_vars(RunNext)

\* ----------------------------------- ReliablePaymentClient.do, the attempt
\* The closure that do hands to RetryPolicy.Do: limiter.Wait, then
\* breaker.Execute(fn), over the limiter and the breaker of the client (the
\* builder gives every client both).  Do calls it once per attempt, up to
\* MaxAttempts times; the steps inside Wait and Execute are those of the
\* limiter and the breaker.
notWrap == <<sagaVars, retryVars, ingestVars, driverVars, metricsVars, shutdownVars>>

\* Do calls attempt, which calls c.limiter.Wait(ctx)
AttemptCall(t) ==
    /\ attemptFn[t].pc \in {"idle", "returned"}
    /\ attemptFn[t].n < Attempts
    /\ attemptFn' = [attemptFn EXCEPT ![t] =
                        [pc |-> "limiter.Wait", n |-> attemptFn[t].n + 1, ret |-> Nil]]
    /\ UNCHANGED <<breakerVars, limiterVars, notWrap>>

\* mutant: attempt goes on to Execute whatever Wait returned
AttemptAfterWaitAnyway(t) ==
    /\ attemptFn[t].pc = "limiter.Wait"
    /\ wait[t].pc = "returned"
    /\ wait' = [wait EXCEPT ![t] = NoWait]
    /\ attemptFn' = [attemptFn EXCEPT ![t].pc = "breaker.Execute"]
    /\ exec' = [exec EXCEPT ![t] =
          [pc |-> "lock", now |-> clock, open |-> breaker.state = circuitOpen,
           trial |-> FALSE, ret |-> Nil]]
    /\ UNCHANGED <<breaker, clock, opened, streak, limiter, wallClock, admitted, notWrap>>

\* Wait has returned: attempt returns its error, or calls
\* c.breaker.Execute(fn), which reads the clock
AttemptAfterWait(t) ==
    /\ attemptFn[t].pc = "limiter.Wait"
    /\ wait[t].pc = "returned"
    /\ wait' = [wait EXCEPT ![t] = NoWait]
    /\ IF wait[t].ret # Nil
          THEN /\ attemptFn' = [attemptFn EXCEPT ![t].pc = "returned", ![t].ret = wait[t].ret]
               /\ UNCHANGED exec
          ELSE /\ attemptFn' = [attemptFn EXCEPT ![t].pc = "breaker.Execute"]
               /\ exec' = [exec EXCEPT ![t] =
                     [pc |-> "lock", now |-> clock, open |-> breaker.state = circuitOpen,
                      trial |-> FALSE, ret |-> Nil]]
    /\ UNCHANGED <<breaker, clock, opened, streak, limiter, wallClock, admitted, notWrap>>

\* Execute has returned and attempt returns what it returned
AttemptAfterExecute(t) ==
    /\ attemptFn[t].pc = "breaker.Execute"
    /\ exec[t].pc = "idle"
    /\ attemptFn' = [attemptFn EXCEPT ![t].pc = "returned", ![t].ret = exec[t].ret]
    /\ UNCHANGED <<breakerVars, limiterVars, notWrap>>

\* time passes, for the limiter and the breaker alike: both read time.Now
TimePasses ==
    /\ clock < MaxClock /\ wallClock < MaxWall
    /\ clock' = clock + 1
    /\ wallClock' = wallClock + 1
    /\ UNCHANGED <<breaker, exec, opened, streak, limiter, wait, admitted>>
    /\ UNCHANGED <<attemptFn, notWrap>>

WrapNext ==
    \/ \E t \in Clients :
          \/ AttemptCall(t)
          \/ attemptFn[t].pc = "limiter.Wait" /\ wait[t].pc = "idle" /\ WaitCall(t)
          \/ attemptFn[t].pc = "limiter.Wait" /\ (WaitCheck(t) \/ WaitLock(t) \/ WaitSleep(t)
                                             \/ WaitCancel(t))
          \/ AttemptAfterWait(t)
          \/ attemptFn[t].pc = "breaker.Execute" /\ (ExecuteAdmit(t) \/ ExecuteReturn(t))
          \/ AttemptAfterExecute(t)
    \/ TimePasses

SpecWrap == Init /\ [][WrapNext]_vars

\* ================================================================== claims
Terminal == {SagaStatusSucceeded, SagaStatusFailed, SagaStatusRefunded}

\* the side effects invocation c has invoked so far, in order
Invoked(c) ==
    LET IsCall(e) == e[2] = "call"
        s == SelectSeq(calls[c], IsCall)
    IN  [i \in 1 .. Len(s) |-> s[i][1]]

\* every occurrence of event e2 in calls[c] is preceded by an occurrence of e1
Precedes(c, e1, e2) ==
    \A j \in 1 .. Len(calls[c]) :
        calls[c][j] = e2 => \E i \in 1 .. (j - 1) : calls[c][i] = e1

Happened(c, e) == \E i \in 1 .. Len(calls[c]) : calls[c][i] = e

\* C1: within one CreateOrder invocation the side effects invoked form a
\* prefix of [charge, assign, refund]; assign is invoked only after charge
\* returned success, refund only after charge returned success and assign
\* returned failure.
C1_SideEffectOrder ==
    \A c \in Calls :
        /\ Len(Invoked(c)) <= 3
        /\ Invoked(c) = SubSeq(<<"charge", "assign", "refund">>, 1, Len(Invoked(c)))
        /\ Precedes(c, <<"charge", "ok">>, <<"assign", "call">>)
        /\ Precedes(c, <<"charge", "ok">>, <<"refund", "call">>)
        /\ Precedes(c, <<"assign", "failed">>, <<"refund", "call">>)

C1_Witness ==
    \E c \in Calls : pc[c] = "done" /\ Invoked(c) = <<"charge", "assign", "refund">>
\* ------------------------------------------------------------------- C2
SameRequest(c, d) ==
    /\ req[c].idempotency_key # ""
    /\ req[c].idempotency_key = req[d].idempotency_key
    /\ req[c].user_id = req[d].user_id
    /\ req[c].amount = req[d].amount

\* invocation c created its saga (Start reported created) or invoked a side effect
Acted(c) == start[c].created \/ calls[c] # << >>

\* c returned the order id of the saga stored under its key, created by another
ReplayedOther(c) ==
    /\ result[c].err = Nil
    /\ start[c].record.status = SagaStatusSucceeded
    /\ result[c].order_id # idGen(c)
    /\ \E r \in KeyRows(order_sagas, req[c].idempotency_key) :
          r.order_id = result[c].order_id

RejectedAsProcessed(c) ==
    \/ \E st \in {SagaStatusStarted, SagaStatusFailed, SagaStatusRefunded} :
          result[c].err = AlreadyProcessed(st)
    \/ result[c].err = ErrIdempotencyConflict

\* Start failed on a store statement and c returned that error
StartFailed(c) ==
    start[c].err \in {ErrStore, ErrCanceled} /\ result[c].err = start[c].err

\* C2 as stated: of two CreateOrder calls with the same key, user and amount
\* at most one creates a saga and performs side effects; the other returns
\* the first call's order id (status read Succeeded) or fails with an
\* already-processed or idempotency-conflict error.
C2_AsStated ==
    \A c, d \in Calls :
        (c # d /\ pc[c] = "done" /\ pc[d] = "done" /\ SameRequest(c, d)) =>
            /\ ~(Acted(c) /\ Acted(d))
            /\ ~Acted(d) => (ReplayedOther(d) \/ RejectedAsProcessed(d))

\* C2 (amended): as C2, except that a call whose Start failed on a store
\* statement returns that store error.
C2_AtMostOneCreates ==
    \A c, d \in Calls :
        (c # d /\ pc[c] = "done" /\ pc[d] = "done" /\ SameRequest(c, d)) =>
            /\ ~(Acted(c) /\ Acted(d))
            /\ ~Acted(d) => \/ ReplayedOther(d)
                            \/ RejectedAsProcessed(d)
                            \/ StartFailed(d)

C2_Witness ==
    \E c, d \in Calls :
        /\ c # d /\ pc[c] = "done" /\ pc[d] = "done" /\ SameRequest(c, d)
        /\ Acted(c) /\ result[c] = [order_id |-> idGen(c), err |-> Nil]
        /\ ReplayedOther(d) /\ result[d].order_id = idGen(c)

\* ------------------------------------------------------------------- C3
\* invocation c takes the step of CreateOrder that follows Start's return
LeavesStart(c) == pc[c] = "started" /\ pc'[c] # "started"

ReplayOf(c, sts) ==
    start[c].err = Nil /\ ~start[c].created /\ start[c].record.status \in sts

NoEffects(c) ==
    /\ UNCHANGED tables
    /\ calls'[c] = << >>
    /\ statuses'[c] = << >>
    /\ pc'[c] = "done"

\* C3: when Start reports created=false and the stored status is Succeeded,
\* CreateOrder returns the stored order id with no error, invokes no Charge,
\* Assign or Refund, appends no step and writes no status.
C3_ReplaySucceeded ==
    [][\A c \in Calls :
          (LeavesStart(c) /\ ReplayOf(c, {SagaStatusSucceeded})) =>
              /\ result'[c] = [order_id |-> start[c].record.order_id, err |-> Nil]
              /\ NoEffects(c)]_vars

C3_Witness ==
    \E c \in Calls :
        /\ pc[c] = "done" /\ ReplayOf(c, {SagaStatusSucceeded})
        /\ result[c].order_id # idGen(c) /\ result[c].order_id # 0

\* ------------------------------------------------------------------- C4
\* C4: when Start reports created=false and the stored status is Started,
\* Failed or Refunded, CreateOrder fails with the already-processed error
\* naming that status and invokes no side effect, appends no step and writes
\* no status.
C4_ReplayNotSucceeded ==
    [][\A c \in Calls :
          (LeavesStart(c) /\ ReplayOf(c, {SagaStatusStarted, SagaStatusFailed,
                                          SagaStatusRefunded})) =>
              /\ result'[c].err = AlreadyProcessed(start[c].record.status)
              /\ NoEffects(c)]_vars

C4_Witness ==
    \E c \in Calls :
        /\ pc[c] = "done" /\ ReplayOf(c, {SagaStatusFailed})
        /\ result[c].err = AlreadyProcessed(SagaStatusFailed)

\* ------------------------------------------------------------------- C5
\* the terminal status the side-effect outcomes of c call for
StatusFor(c) ==
    IF Happened(c, <<"charge", "ok">>) /\ Happened(c, <<"assign", "ok">>)
       THEN SagaStatusSucceeded
    ELSE IF Happened(c, <<"charge", "ok">>) /\ Happened(c, <<"assign", "failed">>)
            /\ Happened(c, <<"refund", "ok">>)
       THEN SagaStatusRefunded
    ELSE IF Happened(c, <<"charge", "failed">>)
            \/ (Happened(c, <<"assign", "failed">>) /\ Happened(c, <<"refund", "failed">>))
       THEN SagaStatusFailed
    ELSE "undetermined"

\* C5: an invocation that created its saga attempts exactly one status
\* update, of the terminal status its side-effect outcomes determine.
C5_OneTerminalUpdate ==
    \A c \in Calls :
        /\ Len(statuses[c]) <= 1
        /\ (pc[c] = "done" /\ start[c].created) => statuses[c] = <<StatusFor(c)>>
        /\ statuses[c] # << >> => (pc[c] = "done" /\ start[c].created)

C5_Witness ==
    \E c \in Calls :
        /\ pc[c] = "done" /\ start[c].created
        /\ statuses[c] = <<SagaStatusRefunded>> /\ Happened(c, <<"refund", "ok">>)

\* ------------------------------------------------------------------- C6
Paid(order_id) == OrderRows(payments, order_id) # {}
Assigned(order_id) == OrderRows(order_assignments, order_id) # {}
Refunded(order_id) == \E p \in OrderRows(payments, order_id) : p.refunded_at # 0

\* C6: a saga stored as Succeeded has a payment row and an assignment row
\* for its order id.
C6_SucceededHasRows ==
    \A r \in order_sagas :
        r.status = SagaStatusSucceeded => Paid(r.order_id) /\ Assigned(r.order_id)

C6_Witness ==
    \E r \in order_sagas :
        r.status = SagaStatusSucceeded /\ Happened(r.order_id, <<"assign", "ok">>)

\* ------------------------------------------------------------------- C7
\* C7: a saga stored as Refunded has a payment row with refunded_at set and
\* no assignment row.
C7_RefundedState ==
    \A r \in order_sagas :
        r.status = SagaStatusRefunded => Refunded(r.order_id) /\ ~Assigned(r.order_id)

\* ------------------------------------------------------------------- C8
\* C8: a saga stored as Failed has no payment row, or a payment row with
\* refunded_at unset and no assignment row.
C8_FailedState ==
    \A r \in order_sagas :
        r.status = SagaStatusFailed =>
            \/ ~Paid(r.order_id)
            \/ Paid(r.order_id) /\ ~Refunded(r.order_id) /\ ~Assigned(r.order_id)

\* ------------------------------------------------------------------- C9
\* C9: once a saga's stored status is Succeeded, Refunded or Failed, no step
\* of any CreateOrder invocation changes it.
C9_TerminalIsFinal ==
    [][\A r \in order_sagas :
          r.status \in Terminal =>
              \E q \in order_sagas' : q.order_id = r.order_id /\ q.status = r.status]_vars

C9_Witness ==
    \E r \in order_sagas, c \in Calls :
        /\ r.status \in Terminal /\ c # r.order_id
        /\ pc[c] = "done" /\ ReplayOf(c, Terminal)
        /\ req[c].idempotency_key = r.idempotency_key

\* ------------------------------------------------------------------ C10
\* C10: the refund effect is applied to an order at most once, and a payment
\* row whose refunded_at is set keeps that value.
C10_RefundAtMostOnce ==
    [][/\ \A o \in Calls : refund_effects'[o] <= 1
       /\ \A p \in payments :
             p.refunded_at # 0 =>
                 \E q \in payments' : q.order_id = p.order_id
                                      /\ q.refunded_at = p.refunded_at]_vars

C10_Witness ==
    \E c \in Calls :
        /\ refund_effects[idGen(c)] = 1 /\ Refunded(idGen(c))
        /\ pc[c] = "done" /\ refundErr[c] = ErrAlreadyRefunded

\* ------------------------------------------------------------------ C11
AssignAndRefundFailed(c) ==
    Happened(c, <<"assign", "failed">>) /\ Happened(c, <<"refund", "failed">>)

\* C11: CreateOrder returns the Charge error when Charge failed, the Assign
\* error when Assign failed and Refund succeeded, and when Assign and Refund
\* both failed an error of which errors.Is identifies the Assign error and
\* the Refund error.
C11_ErrorIdentifiesFailure ==
    \A c \in Calls :
        (pc[c] = "done" /\ start[c].created) =>
            /\ Happened(c, <<"charge", "failed">>) => result[c].err = err[c]
            /\ (Happened(c, <<"assign", "failed">>) /\ Happened(c, <<"refund", "ok">>))
                  => result[c].err = err[c]
            /\ AssignAndRefundFailed(c) =>
                  /\ ErrorsIs(result[c].err, err[c])
                  /\ ErrorsIs(result[c].err, refundErr[c])

\* ------------------------------------------------------------------ C12
\* the result the side-effect outcomes of c call for
ResultFor(c) ==
    IF Happened(c, <<"charge", "failed">>) THEN [order_id |-> 0, err |-> err[c]]
    ELSE IF Happened(c, <<"assign", "ok">>) THEN [order_id |-> idGen(c), err |-> Nil]
    ELSE IF Happened(c, <<"refund", "ok">>) THEN [order_id |-> 0, err |-> err[c]]
    ELSE [order_id |-> 0, err |-> RefundFailed(err[c], refundErr[c])]

\* invocation c moves on from the AddStep, or the UpdateStatus, it is at
StepWritten(c) == pc[c] \in StepLines /\ pc'[c] # pc[c]
StatusWritten(c) == pc[c] \in UpdateLines /\ pc'[c] # pc[c]

\* the statuses a failed terminal update may leave stored
LeftStored(c, applied) ==
    IF applied THEN {SagaStatusStarted, StatusFor(c)} ELSE {SagaStatusStarted}

Swallowed(applied) ==
    \A c \in Calls :
        /\ StepWritten(c) =>
              /\ pc'[c] = StepAt(pc[c]).next
              /\ calls'[c] = calls[c] /\ result'[c] = result[c]
              /\ err'[c] = err[c] /\ refundErr'[c] = refundErr[c]
              /\ statuses'[c] = statuses[c]
        /\ StatusWritten(c) =>
              /\ pc'[c] = "done"
              /\ calls'[c] = calls[c]
              /\ statuses'[c] = <<StatusFor(c)>>
              /\ result'[c] = ResultFor(c)
              /\ updateErr'[c] # Nil =>
                    \A r \in OrderRows(order_sagas', idGen(c)) :
                        /\ r.status \in LeftStored(c, applied)
                        /\ order_sagas' = order_sagas => r.status = SagaStatusStarted

\* C12 as stated: whatever the outcome of an AddStep or of the UpdateStatus,
\* CreateOrder goes on to the same next operation with the same side effects
\* invoked and the same result, the terminal UpdateStatus is attempted, and
\* when it fails the stored status is Started.
C12_AsStated == [][Swallowed(FALSE)]_vars

\* C12 (amended): as C12, except that an UpdateStatus whose statement took
\* effect before its error was reported leaves the terminal status stored.
C12_WritesSwallowed == [][Swallowed(TRUE)]_vars

C12_Witness ==
    \E c \in Calls :
        /\ pc[c] = "done" /\ result[c] = [order_id |-> idGen(c), err |-> Nil]
        /\ updateErr[c] = ErrStore
        /\ Len(order_saga_steps[idGen(c)]) < 4
        /\ \E r \in OrderRows(order_sagas, idGen(c)) : r.status = SagaStatusStarted

\* ------------------------------------------------------------------ C13
\* invocation c is called with an empty idempotency key
BeginsWithoutKey(c) ==
    pc[c] = "idle" /\ pc'[c] # "idle" /\ req'[c].idempotency_key = ""

\* C13: CreateOrder with an empty idempotency key returns the
\* idempotency-key-required error at once: Start is not called, no side
\* effect is invoked and no table is written.
C13_KeyRequired ==
    [][\A c \in Calls :
          BeginsWithoutKey(c) =>
              /\ result'[c] = [order_id |-> 0, err |-> ErrIdempotencyKeyRequired]
              /\ pc'[c] = "done"
              /\ start'[c] = NoStart /\ calls'[c] = << >> /\ statuses'[c] = << >>
              /\ UNCHANGED <<tables, affected, faults>>]_vars

C13_Witness ==
    \E c \in Calls :
        /\ pc[c] = "done" /\ req[c].user_id # "" /\ req[c].idempotency_key = ""
        /\ result[c].err = ErrIdempotencyKeyRequired
        /\ order_sagas # {} /\ payments # {}

\* ------------------------------------------------------------------ C14
\* task t leaves the first critical section of Execute, or the second
Admits(t) == exec[t].pc = "lock" /\ exec'[t].pc # "lock"
Returns(t) == exec[t].pc = "fn" /\ exec'[t].pc # "fn"

\* Execute returned ErrCircuitOpen to task t without calling fn
Rejected(t) == exec'[t].pc = "idle" /\ exec'[t].ret = ErrCircuitOpen

\* the Execute of task t started while the breaker was open, el seconds after
\* it opened, and the breaker has been open since
StartedOpen(t, el) ==
    /\ breaker.state = circuitOpen
    /\ exec[t].open
    /\ exec[t].now - opened = el

\* C14: when max_failures calls in a row have failed the breaker is open, and
\* an Execute that starts then returns the circuit-open error without calling
\* the wrapped operation; a success resets the failure count, and the breaker
\* opens only after max_failures failures in a row.
C14_OpensAfterMaxFailures ==
    [][\A t \in Tasks :
          /\ (Returns(t) /\ exec'[t].ret # Nil /\ streak' >= breaker.maxFails)
                => breaker'.state = circuitOpen
          /\ (Returns(t) /\ exec'[t].ret = Nil) => breaker'.failures = 0
          /\ (breaker.state # circuitOpen /\ breaker'.state = circuitOpen)
                => streak' >= breaker.maxFails
          /\ (Admits(t) /\ StartedOpen(t, 0)) => Rejected(t)]_vars

\* ------------------------------------------------------------------ C15
Trials == {t \in Tasks : exec[t].pc = "fn" /\ exec[t].trial}

\* C15: at most one half-open trial is in flight, and an Execute that reaches
\* admission while a trial is in flight returns the circuit-open error.
C15_OneTrialInFlight ==
    [][/\ Cardinality(Trials') <= 1
       /\ \A t \in Tasks :
             (Admits(t) /\ Trials # {}) => Rejected(t)]_vars

\* ------------------------------------------------------------------ C16
\* C16: while the breaker is open an Execute that started less than
\* reset_timeout after it opened returns the circuit-open error, and the
\* breaker leaves the open state only for half-open, reset_timeout or more
\* after it opened.
C16_OpenUntilTimeout ==
    [][/\ \A t \in Tasks :
             (Admits(t) /\ \E el \in 0 .. (breaker.resetAfter - 1) : StartedOpen(t, el))
                => Rejected(t)
       /\ (breaker.state = circuitOpen /\ breaker'.state # circuitOpen) =>
             /\ breaker'.state = circuitHalfOpen
             /\ clock - opened >= breaker.resetAfter]_vars

\* ------------------------------------------------------------------ C17
\* C17: when a half-open trial succeeds the breaker is closed with failure
\* count 0; when it fails the breaker is open with failure count 0 and
\* opened_at the time of the failure.
C17_TrialDecides ==
    [][\A t \in Tasks :
          (Returns(t) /\ exec[t].trial) =>
              IF exec'[t].ret = Nil
                 THEN breaker'.state = circuitClosed /\ breaker'.failures = 0
                 ELSE /\ breaker'.state = circuitOpen
                      /\ breaker'.failures = 0
                      /\ breaker'.openedAt = clock]_vars

\* ------------------------------------------------------------------ C18
Returned == loop.pc = "returned"

\* fn is not called again once it has returned nil, and Do then returns nil
StopsAtSuccess ==
    /\ \A i \in 1 .. (Len(fnCalls) - 1) : fnCalls[i] # Nil
    /\ (fnCalls # << >> /\ fnCalls[Len(fnCalls)] = Nil) =>
          (Returned /\ loop.ret = Nil)

\* C18 as stated: Do calls fn at least once and at most max_attempts times
\* (a max_attempts below 1 counting as 1) and stops at the first success.
C18_AsStated ==
    /\ Len(fnCalls) <= PolicyAttempts(policy)
    /\ Returned => Len(fnCalls) >= 1
    /\ StopsAtSuccess

\* C18 (amended): as C18, except that Do returns the context's error without
\* calling fn when the context is done before the first attempt.
C18_Invocations ==
    /\ Len(fnCalls) <= PolicyAttempts(policy)
    /\ Returned => \/ Len(fnCalls) >= 1
                   \/ ctxErr # Nil /\ loop.ret = ctxErr
    /\ StopsAtSuccess

C18_Witness ==
    /\ Returned /\ PolicyAttempts(policy) >= 3
    /\ Len(fnCalls) = PolicyAttempts(policy)
    /\ loop.ret = ErrStore /\ ctxErr = Nil

\* ------------------------------------------------------------------ C19
\* min(max_delay, base_delay * 2^(a-1)), in the integers
ExpectedDelay(p, a) ==
    LET grown == IF Positive(p.BaseDelay) THEN Pow2(p.BaseDelay.exp + a - 1)
                 ELSE p.BaseDelay
    IN  IF Greater(grown, p.MaxDelay) THEN p.MaxDelay ELSE grown

\* Do goes on to another attempt after the one that failed
GoesOn == loop.pc = "fn" /\ loop'.pc \in {"sleep", "for"}

NonDecreasing(ds) ==
    \A i, j \in 1 .. Len(ds) : i < j => ~Greater(ds[i], ds[j])

\* C19, for policies with a positive max_delay: after failed attempt a Do
\* sleeps for jitter(min(max_delay, base_delay * 2^(a-1))) when that is
\* positive, and with the identity jitter the delays it sleeps for are at
\* most max_delay and never decrease.
C19_Backoff ==
    [][Positive(policy.MaxDelay) =>
          /\ GoesOn =>
                /\ loop'.delay \in Jitter(policy, ExpectedDelay(policy, loop.attempt))
                /\ Positive(loop'.delay) => loop'.pc = "sleep"
          /\ policy.Jitter = "identity" =>
                /\ \A i \in 1 .. Len(sleeps') : ~Greater(sleeps'[i], policy.MaxDelay)
                /\ NonDecreasing(sleeps')]_vars

\* ------------------------------------------------------------------ C20
\* fn returned an error the default ShouldRetry does not retry
FailsForGood ==
    /\ loop.pc = "fn" /\ loop'.pc # "fn"
    /\ policy.ShouldRetry = "default"
    /\ fnCalls'[Len(fnCalls')] \in {ErrCircuitOpen, ErrCanceled, ErrDeadlineExceeded}

\* C20: with the default ShouldRetry, when fn fails with the circuit-open, the
\* cancelled or the deadline-exceeded error, Do returns that error without
\* another attempt and without sleeping.
C20_NoRetry ==
    [][FailsForGood =>
          /\ loop'.pc = "returned"
          /\ loop'.ret = fnCalls'[Len(fnCalls')]
          /\ sleeps' = sleeps]_vars

C20_Witness ==
    /\ Returned /\ policy.ShouldRetry = "default"
    /\ PolicyAttempts(policy) >= 3 /\ Positive(policy.BaseDelay)
    /\ fnCalls = <<ErrStore, ErrCircuitOpen>>
    /\ loop.ret = ErrCircuitOpen /\ Len(sleeps) = 1

\* ------------------------------------------------------------------ C21
\* sleep returns an error
SleepFails == loop.pc = "sleep" /\ loop'.pc # "sleep" /\ loop'.slept # Nil

\* an attempt would start while the context is done
StartsWhenDone ==
    /\ loop.pc = "for" /\ loop'.pc # "for"
    /\ loop.attempt <= PolicyAttempts(policy)
    /\ ctxErr # Nil

\* C21: when sleep returns a cancellation error Do returns that error with no
\* further call of fn, and when the context is done where an attempt would
\* start Do returns the context's error without calling fn for that attempt.
C21_RespectsCancellation ==
    [][/\ SleepFails =>
             /\ loop'.slept \in {ErrCanceled, ErrDeadlineExceeded}
             /\ loop'.pc = "returned" /\ loop'.ret = loop'.slept
             /\ fnCalls' = fnCalls
       /\ StartsWhenDone =>
             /\ loop'.pc = "returned" /\ loop'.ret = ctxErr
             /\ fnCalls' = fnCalls
       /\ loop.pc = "returned" => fnCalls' = fnCalls]_vars

\* Do has returned the error of a sleep that followed two failed attempts
C21_Witness ==
    /\ Returned /\ loop.slept = ErrCanceled /\ loop.ret = ErrCanceled
    /\ fnCalls = <<ErrStore, ErrStore>> /\ Len(sleeps) = 2
    /\ PolicyAttempts(policy) >= 3

\* ------------------------------------------------------------------ C22
\* fn has failed in every one of the attempts the policy allows
Exhausted ==
    /\ Len(fnCalls) = PolicyAttempts(policy)
    /\ \A i \in 1 .. Len(fnCalls) : fnCalls[i] # Nil

\* the last attempt failed with an error the policy does not retry
NotRetried ==
    /\ fnCalls # << >>
    /\ fnCalls[Len(fnCalls)] # Nil
    /\ ~PolicyShouldRetry(policy, fnCalls[Len(fnCalls)])

\* C22: when every one of the max_attempts attempts has failed, or an attempt
\* has failed with an error should_retry refuses, Do returns the error of the
\* last attempt made, as fn returned it.
C22_LastErrorUnchanged ==
    (loop.pc # "fn" /\ (Exhausted \/ NotRetried)) =>
        (Returned /\ loop.ret = fnCalls[Len(fnCalls)])

C22_Witness ==
    /\ Returned /\ Exhausted /\ PolicyAttempts(policy) >= 3
    /\ policy.ShouldRetry = "always"
    /\ fnCalls[1] = ErrStore /\ fnCalls[Len(fnCalls)] = ErrCircuitOpen
    /\ loop.ret = ErrCircuitOpen

\* ------------------------------------------------------------------ C23
RECURSIVE AdmittedIn(_, _)
\* the number of Wait calls admitted at the instants t .. u
AdmittedIn(t, u) == IF t > u THEN 0 ELSE admitted[t] + AdmittedIn(t + 1, u)

\* C23: for a limiter with positive rate r and burst B, the Wait calls
\* admitted in any window [t, t+T] number at most B + floor(T / r).
C23_WindowBound ==
    ~Degenerate(limiter) =>
        \A t, u \in Instants :
            t <= u => AdmittedIn(t, u) <= limiter.burst + ((u - t) \div limiter.rate)

\* ------------------------------------------------------------------ C24
\* waiter t is admitted: its Wait leaves the critical section with nil
Admitted(t) ==
    wait[t].pc = "lock" /\ wait'[t].pc = "returned" /\ wait'[t].ret = Nil

InRange(r) == 0 <= r.tokens /\ r.tokens <= r.burst

\* C24: the tokens of the limiter stay within 0 .. burst under every
\* interleaving of Wait calls; refill leaves them at most burst; a Wait is
\* admitted only when a token is there after the refill, takes exactly that
\* one, and no other waiter is admitted by the same step.
C24_TokensInRange ==
    [][/\ InRange(limiter) /\ InRange(limiter')
       /\ InRange(refill(limiter, wallClock))
       /\ \A t \in Waiters :
             Admitted(t) =>
                /\ refill(limiter, wallClock).tokens > 0
                /\ limiter'.tokens = refill(limiter, wallClock).tokens - 1
                /\ AdmittedIn(0, MaxWall)' = AdmittedIn(0, MaxWall) + 1
                /\ \A u \in Waiters \ {t} : wait'[u] = wait[u]]_vars

\* three instants after the burst was used up a Wait has found the bucket
\* refilled to the cap and taken one of the two tokens, while the other
\* waiter is in a Wait of its own
C24_Witness ==
    /\ limiter.rate = 1 /\ limiter.burst = 2
    /\ admitted[0] = 2 /\ admitted[1] = 0 /\ admitted[2] = 0 /\ admitted[3] = 1
    /\ limiter.last = 3 /\ limiter.tokens = 1
    /\ \E t \in Waiters : wait[t].pc = "lock"

\* ------------------------------------------------------------------ C25
\* C25: a limiter with rate <= 0 or burst <= 0, the outbound one or the
\* inbound one, never makes a caller sleep or wait for a token, and its Wait
\* returns nil, or the context's error when the context is already done.
C25_DegenerateAdmits ==
    Degenerate(limiter) =>
        \A t \in Waiters :
            /\ wait[t].pc \in {"idle", "returned"}
            /\ wait[t].pc = "returned" => wait[t].ret = wait[t].ctx

\* ------------------------------------------------------------------ C26
\* the Wait of waiter t takes a step: it is called, or it moves on
Moves(t) ==
    \/ wait'[t].pc # wait[t].pc
    \/ wait[t].pc \in {"idle", "returned"} /\ wait'[t] # wait[t]

\* the Wait of waiter t returns an error
WaitFails(t) == Moves(t) /\ wait'[t].pc = "returned" /\ wait'[t].ret # Nil

Updated == pub.log # << >>

C28_InnerBeforeBroadcast ==
    /\ pub.log \in {<< >>, <<"inner">>, <<"inner", "broadcast">>}
    /\ pub.log = <<"inner", "broadcast">> => pub.inner = Nil /\ broadcaster
    /\ pub.pc = "broadcast" => pub.inner = Nil /\ pub.log = <<"inner">>
    /\ (Updated /\ pub.inner # Nil) =>
          /\ pub.pc = "returned" /\ pub.ret = pub.inner
          /\ pub.log = <<"inner">>
    /\ Len(hubIn) <= Len(ingested)

\* the first location was stored and broadcast, the second one failed in a
\* store and was not
C28_Witness ==
    /\ broadcaster /\ Len(ingested) = 2 /\ Len(hubIn) = 1
    /\ pub.pc = "returned" /\ pub.inner # Nil /\ pub.ret = pub.inner
    /\ pub.log = <<"inner">>
    /\ hub.pc = "select"
    /\ handler.pc = "done" /\ handler.code = "Internal"

\* ------------------------------------------------------------------ C29
\* a message the stream must refuse: no courier id, a latitude outside
\* [-90, 90], a longitude outside [-180, 180] or a timestamp out of range
InRangeFloat(x, lo, hi) == ~x.nan /\ lo <= x.v /\ x.v <= hi
Valid(m) ==
    /\ m.driver_id # ""
    /\ InRangeFloat(m.latitude, -90, 90)
    /\ InRangeFloat(m.longitude, -180, 180)
    /\ m.timestamp # "invalid"

LocationOf(m) ==
    [DriverID |-> m.driver_id, Lat |-> m.latitude, Long |-> m.longitude,
     Timestamp |-> IF m.timestamp = "nil" THEN "zero" ELSE m.timestamp]

\* the messages are ingested in the order received, none of them twice
InOrder ==
    /\ Len(ingested) <= Len(recvd)
    /\ \A i \in 1 .. Len(ingested) : ingested[i] = LocationOf(recvd[i])

\* the acknowledgement is sent once, on EOF, every message received having
\* been ingested with success
AckOnlyAtEnd ==
    /\ acked <= 1
    /\ acked = 1 =>
          /\ handler.pc = "done" /\ handler.code \in {"OK", "Unknown"}
          /\ Len(ingested) = Len(recvd)
          /\ Len(recvd) > 0 => pub.pc = "returned" /\ pub.ret = Nil

\* nothing is ingested from the first invalid message on, and the stream
\* ends with InvalidArgument
StopsAtInvalid ==
    \A i \in 1 .. Len(recvd) :
        ~Valid(recvd[i]) =>
            /\ i = Len(recvd)
            /\ Len(ingested) = i - 1
            /\ handler.pc = "convert" \/
                  (handler.pc = "done" /\ handler.code = "InvalidArgument")

RecvErrorIsInternal ==
    (handler.pc = "done" /\ handler.err # Nil /\ handler.err[1] = "recv") =>
        handler.code = "Internal" /\ acked = 0

\* C29: the messages of one stream are ingested in the order received; the
\* acknowledgement is sent only on EOF after every message received was
\* ingested with success; the first invalid message ends the stream with
\* InvalidArgument, Ingest being called neither for it nor for a later one;
\* a receive error other than EOF ends it with Internal.
C29_StreamIngest ==
    InOrder /\ AckOnlyAtEnd /\ StopsAtInvalid /\ RecvErrorIsInternal

\* ------------------------------------------------------------------ C30
\* the call of Broadcast returns
Broadcasts == pub.pc = "broadcast" /\ pub'.pc = "returned" /\ broadcaster

\* C30: Broadcast can always return at once, whatever the hub is doing; it
\* hands the message to the hub when the hub is receiving at that moment and
\* drops it otherwise; no message waits in the channel.
C30_NeverBlocks ==
    [][/\ pub.pc = "broadcast" => ENABLED Broadcast
       /\ broadcastCh = << >> /\ broadcastCh' = << >>
       /\ Broadcasts =>
             IF Receiving
                THEN hubIn' = Append(hubIn, pub.data) /\ hub'.msg = pub.data
                ELSE hubIn' = hubIn /\ hub' = hub]_vars

\* a message was handed to the hub, and the next one was dropped because
\* the hub was still writing the first to its connections
C30_Witness ==
    /\ broadcaster /\ Len(ingested) = 2 /\ Len(hubIn) = 1
    /\ pub.pc = "returned" /\ pub.log = <<"inner", "broadcast">>
    /\ hub.pc = "broadcast" /\ hub.msg = hubIn[1]
    /\ ingested[1].Timestamp = "valid" /\ ingested[2].Timestamp = "zero"
    /\ hub.msg.timestamp = "valid" /\ hub.conns # {}

\* ------------------------------------------------------------------ C31
\* C31: Refund is idempotent on the same (order_id, amount): after a
\* successful Refund of a charged order, a second Refund with the same
\* order_id and amount succeeds too and leaves the payment row unchanged.
C31_RefundIdempotent ==
    \A o \in Calls, a \in {r.amount : r \in Requests} :
        LET first == Refund(payments, o, a, refund_effects[o] + 1, "ok")
            second == Refund(first.rows, o, a, refund_effects[o] + 2, "ok")
        IN  Paid(o) /\ first.err = Nil =>
                second.err = Nil /\ second.rows = first.rows

\* ------------------------------------------------------------------ C32
\* caller t's Assign sends its INSERT, and returns
Inserts(t) == assign[t].pc = "insert" /\ assign'[t].pc # "insert"
AssignReturns(t) == assign[t].pc \in {"insert", "select"} /\ assign'[t].pc = "returned"
RowOf(t) == [order_id |-> assign[t].order_id, driver_id |-> assign[t].driver_id]
OneRowPerOrder(rows) ==
    \A o \in {a.order_id : a \in AssignArgs} : Cardinality(OrderRows(rows, o)) <= 1

\* what a call of Assign does and returns, e ranging over the errors beside
\* the conflict error that the call may return
AssignContract(t, e) ==
    /\ Inserts(t) =>
          IF OrderRows(order_assignments, assign[t].order_id) = {}
             THEN \/ order_assignments' = order_assignments \cup {RowOf(t)}
                     /\ assign'[t].ret \in {Nil} \cup e
                  \/ order_assignments' = order_assignments
                     /\ assign'[t].ret \in e
             ELSE order_assignments' = order_assignments
    /\ (AssignReturns(t) /\ OrderRows(order_assignments, assign[t].order_id) # {}) =>
          /\ order_assignments' = order_assignments
          /\ IF RowOf(t) \in order_assignments
                THEN assign'[t].ret \in {Nil} \cup e
                ELSE assign'[t].ret \in {ErrDifferentDriver} \cup e

\* C32 as stated: at most one assignment per order; Assign(order, d) succeeds
\* when no row exists (inserting it) or when the existing row has courier d
\* (row unchanged), and fails as a conflict, row unchanged, when the existing
\* row has another courier; also for concurrent calls on the same order.
C32_AsStated ==
    [][/\ OneRowPerOrder(order_assignments')
       /\ \A t \in Assigners : AssignContract(t, {})]_vars

\* C32 (amended): as C32, except that a call one of whose statements fails
\* returns that statement's error, the row inserted or not.
C32_OneAssignmentPerOrder ==
    [][/\ OneRowPerOrder(order_assignments')
       /\ order_assignments \subseteq order_assignments'
       /\ \A t \in Assigners : AssignContract(t, {ErrStore})]_vars

\* a retried Assign found its own row and succeeded, while another caller's
\* Assign of another courier to the same order was refused
C32_Witness ==
    \E t, u \in Assigners :
        /\ assign[t] = [pc |-> "returned", order_id |-> 1, driver_id |-> "d1",
                        affected |-> 0, ret |-> Nil]
        /\ assign[u] = [pc |-> "returned", order_id |-> 1, driver_id |-> "d2",
                        affected |-> 0, ret |-> ErrDifferentDriver]
        /\ order_assignments = {[order_id |-> 1, driver_id |-> "d1"]}

\* ------------------------------------------------------------------ C33
\* invocation c has called Start and Start has returned
StartReturned(c) == pc[c] \notin {"idle", "Start.insert", "Start.select"} /\ start[c] # NoStart
SamePayload(c, r) == r.user_id = req[c].user_id /\ r.amount = req[c].amount

\* what Start returned to c given the row r stored under c's key: r's record
\* (with the status read) to a caller with r's payload, as created to the one
\* that inserted r; the conflict error to a caller with another payload
StartOutcome(c, r) ==
    IF SamePayload(c, r)
       THEN /\ start[c].err = Nil
            /\ start[c].record.order_id = r.order_id
            /\ start[c].record.user_id = r.user_id
            /\ start[c].record.amount = r.amount
            /\ start[c].created <=> r.order_id = idGen(c)
       ELSE start[c] = [record |-> NoRecord, created |-> FALSE,
                        err |-> ErrIdempotencyConflict]

\* a row of order_sagas keeps its order id, key, user and amount
RowsFixed ==
    \A r \in order_sagas :
        \E q \in order_sagas' :
            [q EXCEPT !.status = r.status] = r

\* C33 as stated: one saga record per idempotency key, fixed by the first
\* committer; of the concurrent Start calls with one key exactly one returns
\* created=true, each caller with the first committer's (user_id, amount)
\* gets that record with created=false, each other caller gets
\* IdempotencyConflict.
C33_AsStated ==
    \A c \in Calls :
        StartReturned(c) =>
            LET rows == KeyRows(order_sagas, req[c].idempotency_key)
            IN  /\ Cardinality(rows) = 1
                /\ \A r \in rows : StartOutcome(c, r)

\* C33 (amended): as C33 for the callers whose statements succeed; a caller
\* one of whose statements fails or is cancelled gets that error and no
\* record, so at most one caller returns created=true.
C33_OneRecordPerKey ==
    [][/\ RowsFixed
       /\ \A c \in Calls :
            LET rows == KeyRows(order_sagas', req'[c].idempotency_key)
            IN  /\ Cardinality(rows) <= 1
                /\ StartReturned(c)' =>
                      \/ start'[c] \in [record : {NoRecord}, created : {FALSE},
                                        err : {ErrStore, ErrCanceled}]
                      \/ /\ Cardinality(rows) = 1
                         /\ \A r \in rows : StartOutcome(c, r)'
       /\ \A c, d \in Calls :
            (c # d /\ req'[c].idempotency_key = req'[d].idempotency_key) =>
                ~(start'[c].created /\ start'[d].created)]_vars

\* two invocations with one key and different payloads were both inside Start:
\* the first committer created the record, the other got the conflict error
C33_Witness ==
    \E c, d \in Calls :
        /\ c # d /\ req[c].idempotency_key = req[d].idempotency_key
        /\ StartReturned(c) /\ StartReturned(d)
        /\ start[c].created /\ start[c].err = Nil
        /\ start[c].record.order_id = idGen(c)
        /\ affected[d] = 0
        /\ start[d].err = ErrIdempotencyConflict
        /\ KeyRows(order_sagas, req[c].idempotency_key) # {}

\* ------------------------------------------------------------------ C34
\* a snapshot against the Start and End calls made before it was taken
SnapshotMatches(s) ==
    /\ \A m \in DOMAIN s.Methods :
          /\ s.Methods[m].InFlight = started[m] - ended[m]
          /\ s.Methods[m].InFlight >= 0
          /\ s.Methods[m].Count = ended[m]
          /\ s.Methods[m].Errors <= s.Methods[m].Count
    /\ \A m \in MethodNames \ DOMAIN s.Methods : started[m] = 0 /\ ended[m] = 0
    /\ s.TotalRequests = Sum([m \in DOMAIN s.Methods |-> s.Methods[m].Count],
                             DOMAIN s.Methods)
    /\ s.TotalErrors = Sum([m \in DOMAIN s.Methods |-> s.Methods[m].Errors],
                           DOMAIN s.Methods)
    /\ s.InFlight = Sum([m \in DOMAIN s.Methods |-> s.Methods[m].InFlight],
                        DOMAIN s.Methods)

\* C34: under any interleaving of Start and End calls, every snapshot has
\* for each method in_flight = Starts - Ends >= 0, count = Ends and
\* errors <= count, and its global totals are the sums of its per-method
\* values.
C34_SnapshotConsistent ==
    [][/\ SnapshotMatches(Snapshot(metrics.methods))
       /\ snap' # snap => snap' = Snapshot(metrics.methods) /\ SnapshotMatches(snap')]_vars

\* a snapshot taken while two RPCs of different methods were in flight and a
\* third, of the first method, had ended with an error
C34_Witness ==
    /\ snap.TotalRequests = 1 /\ snap.TotalErrors = 1 /\ snap.InFlight = 2
    /\ DOMAIN snap.Methods = MethodNames
    /\ \A m \in MethodNames : snap.Methods[m].InFlight = 1
    /\ \A t \in Rpcs : span[t].pc = "open"
    /\ snap = Snapshot(metrics.methods)

\* ------------------------------------------------------------------ C35
\* the steps of a shutdown in the order of the claim; the HTTP shutdown may
\* end on its timeout
ShutdownSteps ==
    <<{<<"health", "DriverService">>}, {<<"health", "OrderService">>}, {<<"health", "">>},
      {<<"grpc", "stop accepting">>}, {<<"grpc", "drained">>},
      {<<"http", "shutdown">>, <<"http", "shutdown timed out">>},
      {<<"release", "orders">>}, {<<"release", "location store">>}>>

\* what run has done after a signal follows that order, the server refusing
\* new RPCs from its stop on and every status being NotServing by then
InShutdownOrder ==
    (events # << >> /\ events[1][1] = "health") =>
        /\ Len(events) <= Len(ShutdownSteps)
        /\ \A i \in 1 .. Len(events) : events[i] \in ShutdownSteps[i]
        /\ Len(events) >= 4 =>
              ~accepting /\ \A s \in Services : health[s] = "NOT_SERVING"
        /\ Len(events) >= 5 => inflight = {}

\* C35: after a shutdown signal the health statuses flip to NotServing, then
\* the RPC server stops accepting and drains within a bounded time, then the
\* observability server is shut down with a short timeout, then the store
\* handles are released in reverse dependency order; and the shutdown
\* completes even if an RPC in flight never finishes.
C35_GracefulShutdown ==
    /\ []InShutdownOrder
    /\ sigterm ~> run = "returned"

\* ------------------------------------------------------------------ C36
\* client t's attempt has a failed Wait in hand, and takes its next step
WaitFailed(t) ==
    attemptFn[t].pc = "limiter.Wait" /\ wait[t].pc = "returned" /\ wait[t].ret # Nil
AttemptMoves(t) == attemptFn'[t] # attemptFn[t]

\* C36: each attempt of a reliability-wrapped call performs limiter.Wait and
\* then breaker.Execute(operation): Execute is entered only from a Wait that
\* returned nil, and the operation runs only inside Execute; if Wait fails
\* the attempt returns Wait's error, the operation is not invoked and the
\* breaker's state, failure count and opened_at are unchanged.
C36_WaitThenExecute ==
    [][\A t \in Clients :
         /\ (exec[t].pc = "idle" /\ exec'[t].pc # "idle") =>
               /\ attemptFn[t].pc = "limiter.Wait"
               /\ wait[t].pc = "returned" /\ wait[t].ret = Nil
         /\ exec'[t].pc = "fn" => attemptFn'[t].pc = "breaker.Execute"
         /\ (attemptFn[t].pc = "limiter.Wait" /\ wait'[t] # wait[t]) =>
               breaker' = breaker /\ (exec'[t].pc = "idle" \/ wait[t].ret = Nil)
         /\ (WaitFailed(t) /\ AttemptMoves(t)) =>
               /\ attemptFn'[t] = [attemptFn[t] EXCEPT !.pc = "returned",
                                                       !.ret = wait[t].ret]
               /\ exec' = exec
               /\ breaker' = breaker]_vars

\* the second attempt of a call failed in Wait, its context cancelled, and
\* returned that error without entering Execute, while the breaker was open
\* and another client inside the wrapped operation
C36_Witness ==
    \E t, u \in Clients :
        /\ attemptFn[t] = [pc |-> "returned", n |-> 2, ret |-> ErrCanceled]
        /\ exec[t].pc = "idle"
        /\ attemptFn[u].pc = "breaker.Execute" /\ exec[u].pc = "fn"
        /\ breaker.state = circuitOpen

\* ------------------------------------------------------------------ C37
\* the step-log entry that belongs to an event of calls[c]: the invocation
\* of a side effect, or its return
EntryOf(c, e) ==
    [order_id |-> idGen(c), step |-> e[1],
     status |-> CASE e[2] = "call" -> "started"
                  [] e[2] = "ok" -> "succeeded"
                  [] e[2] = "failed" -> "failed",
     detail |-> IF e[2] # "failed" THEN Nil
                ELSE IF e[1] = "refund" THEN refundErr[c] ELSE err[c]]

\* the side effect invoked at a line of CreateOrder, and the lines at which
\* the outcome of the side effect that just returned is still to be written
OpAt(l) == CASE l = "L85" -> "charge" [] l = "L93" -> "assign" [] l = "L97" -> "refund"
OutcomeLines == {"L86", "L90", "L94", "L98", "L102", "L107"}

\* the step log of c's order if every AddStep of c so far has written its
\* row: an entry per event of calls[c] in the order of the events, without
\* the outcome still to be written, and with the 'started' entry of the side
\* effect about to be invoked
FullLog(c) ==
    LET evs == IF pc[c] \in OutcomeLines
                  THEN SubSeq(calls[c], 1, Len(calls[c]) - 1) ELSE calls[c]
        base == [i \in 1 .. Len(evs) |-> EntryOf(c, evs[i])]
    IN  IF pc[c] \in {"L85", "L93", "L97"} /\ ~Happened(c, <<OpAt(pc[c]), "call">>)
           THEN Append(base, EntryOf(c, <<OpAt(pc[c]), "call">>))
           ELSE base

StepWritesSucceeded(c) == Len(order_saga_steps[idGen(c)]) = Len(FullLog(c))

\* C37: for a saga whose step writes all succeed, the step log is written in
\* the order of the side effects: 'started' before each of charge, assign
\* and refund is invoked, one outcome entry ('succeeded', or 'failed' with
\* the error as detail) after it returns; a fully successful run records
\* charge/started, charge/succeeded, assign/started, assign/succeeded.
C37_StepLogOrder ==
    \A c \in Calls :
        (start[c].created /\ StepWritesSucceeded(c)) =>
            /\ order_saga_steps[idGen(c)] = FullLog(c)
            /\ (pc[c] = "done" /\ result[c].err = Nil) =>
                  order_saga_steps[idGen(c)] =
                      <<EntryOf(c, <<"charge", "call">>), EntryOf(c, <<"charge", "ok">>),
                        EntryOf(c, <<"assign", "call">>), EntryOf(c, <<"assign", "ok">>)>>

\* a run whose Assign failed and whose Refund succeeded has written all six
\* entries
C37_Witness ==
    \E c \in Calls :
        /\ pc[c] = "done" /\ start[c].created /\ StepWritesSucceeded(c)
        /\ Len(order_saga_steps[idGen(c)]) = 6
        /\ order_saga_steps[idGen(c)][4].status = "failed"
        /\ order_saga_steps[idGen(c)][4].detail = ErrStore
        /\ order_saga_steps[idGen(c)][6] =
              [order_id |-> idGen(c), step |-> "refund", status |-> "succeeded",
               detail |-> Nil]

\* ------------------------------------------------------------------ C38
\* c returned an order id without error
Succeeded(c) == pc[c] = "done" /\ result[c].err = Nil /\ result[c].order_id # 0

\* C38: if a CreateOrder call returned order id X without error, every later
\* CreateOrder with the same idempotency key, user and amount returns X
\* without error and invokes no side effect, whether or not the first call's
\* step-log and status writes succeeded.
C38_ReplayAfterSuccess ==
    \A c, d \in Calls :
        [](  (c # d /\ Succeeded(c) /\ pc[d] = "idle")
          => []((pc[d] = "done" /\ SameRequest(c, d)) =>
                  /\ result[d] = [order_id |-> result[c].order_id, err |-> Nil]
                  /\ calls[d] = << >>))

\* ------------------------------------------------------------------ C39
\* task t is running fn as the half-open trial, admitted by an Execute that
\* started, el seconds after the breaker opened, while another task was
\* inside Execute
AdmittedAfter(t, el) ==
    /\ exec[t].pc = "fn" /\ exec[t].trial
    /\ exec[t].now - opened = el
    /\ \E u \in Tasks \ {t} : exec[u].pc # "idle"

\* C39: the breaker does not stay rejecting.  However the Execute calls of
\* the tasks interleave, an Execute that starts reset_timeout or more after
\* the breaker opened and finds it still open, or that finds it half-open
\* with no trial in flight, is admitted and calls the wrapped operation; and
\* the half-open marker is set only while the trial that set it is running.
C39_NeverStuckRejecting ==
    [][/\ \A t \in Tasks :
             (/\ Admits(t)
              /\ \/ \E el \in breaker.resetAfter .. MaxClock : StartedOpen(t, el)
                 \/ breaker.state = circuitHalfOpen /\ Trials = {})
                => /\ ~Rejected(t)
                   /\ exec'[t].pc = "fn"
       /\ breaker'.halfOpenFlight =>
             /\ breaker'.state = circuitHalfOpen
             /\ Trials' # {}]_vars

C39_Witness ==
    \E t \in Tasks : \E el \in breaker.resetAfter .. MaxClock : AdmittedAfter(t, el)

\* ------------------------------------------------------------------ C40
\* waiter t leaves the critical section of Wait to sleep for d
Sleeps(t, d) ==
    /\ wait[t].pc = "lock" /\ wait'[t].pc = "sleep"
    /\ wait'[t].wake - wallClock = d

\* C40: with positive rate and burst, the clock advancing and the scheduler
\* fair, every Wait called with a context that is not done returns nil unless
\* its context is cancelled meanwhile, also when several callers wait on the
\* limiter at once; and every sleep that a waiter asks for is longer than 0
\* and no longer than rate.
C40_WaitReturns ==
    /\ \A t \in Waiters :
          (~Degenerate(limiter) /\ wait[t].pc = "for" /\ wait[t].ctx = Nil)
             ~> \/ wait[t].pc = "returned" /\ wait[t].ret = Nil
                \/ wait[t].ctx # Nil
    /\ [][\A t \in Waiters :
             (/\ ~Degenerate(limiter)
              /\ wait[t].pc = "lock" /\ wait'[t].pc \in {"for", "sleep"})
                => \E d \in 1 .. limiter.rate : Sleeps(t, d)]_vars
====
